---- MODULE Spec2Model ----
(***************************************************************************)
(* State-machine model of the S-PLUS cube pipeline                         *)
(* (src/make_scubes_v03.py, class SCubes): stamp acquisition, stamp        *)
(* calibration, mask building with the interactive REFINE loop, and cube   *)
(* assembly (make_cubes).  The file system of one object directory is the  *)
(* shared state; every run of make_cubes is a process with its own         *)
(* program counter and locals.                                             *)
(***************************************************************************)
EXTENDS Integers, Sequences, FiniteSets, TLC

(***************************************************************************)
(* Configuration set by SCubes.__init__                                    *)
(***************************************************************************)
\* self.bands
Bands == <<"U", "F378", "F395", "F410", "F430", "G", "F515", "R", "F660", "I", "F861", "Z">>

BandSet == {Bands[i] : i \in 1..Len(Bands)}

\* the order in which sorted(os.listdir(...)) lists the band part of a file name
SortedBands == <<"F378", "F395", "F410", "F430", "F515", "F660", "F861", "G", "I", "R", "U", "Z">>

\* self.wave_eff
wave_eff(b) ==
    CASE b = "F378" -> 3770 [] b = "F395" -> 3940 [] b = "F410" -> 4094
      [] b = "F430" -> 4292 [] b = "F515" -> 5133 [] b = "F660" -> 6614
      [] b = "F861" -> 8611 [] b = "G" -> 4751 [] b = "I" -> 7690
      [] b = "R" -> 6258 [] b = "U" -> 3536 [] b = "Z" -> 8831

\* img_types of make_stamps_splus, in loop order
Kinds == <<"swp", "swpweight">>

KindSet == {"swp", "swpweight"}

\* the stamp count make_cubes requires before it goes on
MinStamps == 24

\* self.class_star, in hundredths
class_star == 80

(***************************************************************************)
(* Bounds of the model                                                     *)
(***************************************************************************)
\* prompts answered in one REFINE loop
MaxPrompts == 2

\* runs of make_cubes started by one process
MaxRuns == 2

\* stars of the source catalogue offered to the user at the prompt
NStars == 2

TileSet == {"T1", "T2"}

ProcIds == {1, 2}

\* the place of a band in self.bands
BandPlace == [b \in BandSet |-> CHOOSE i \in 1..Len(Bands) : Bands[i] = b]

BandIdx(b) == BandPlace[b]

TileIdx(tile) == IF tile = "T1" THEN 1 ELSE 2

VARIABLES
    fs,         \* the object's directory: stamps, detection stamp, mask, cube, extraction outputs
    env,        \* the collaborators' world: tile images, calibration files, extraction tool
    procs,      \* the processes that run make_cubes
    self,       \* per process: the SCubes attributes tiles[0], sizes[0], angsize
    args,       \* per process: the arguments of the current make_cubes call
    pc,         \* per process: position in make_cubes
    loc,        \* per process: locals of make_cubes (headers, planes, table, mask)
    maskstars,  \* per process: the keep list of the REFINE loop
    nprompt,    \* per process: prompts answered in this run
    calls,      \* per process: collaborator calls made in this run
    written,    \* per process: paths written in this run
    outcome,    \* per process: how the run ended
    nruns,      \* per process: runs started
    prev,       \* per process: how the call before this one ended
    pre         \* per process: what the current run found when it began

vars == <<fs, env, procs, self, args, pc, loc, maskstars, nprompt, calls, written, outcome, nruns, prev, pre>>

(***************************************************************************)
(* The collaborators' world.  It is chosen once, at the start, and never   *)
(* changes: the tile images the stamps are cut from, the calibration files *)
(* and whether the source-extraction tool works.                           *)
(***************************************************************************)
Faults == {"none", "img_missing", "img_all_missing", "img_empty", "det_missing",
           "zpcat_absent", "zpcat_nocol", "grid_absent", "sex_fails", "no_angsize"}

\* what reading the tile image of (kind, band) gives under a fault:
\* "ok", "empty" (no overlap or an all-zero cutout) or "missing" (no file)
TileImgOf(fault, k, b) ==
    CASE fault = "img_all_missing" -> "missing"
      [] fault = "img_missing" /\ k = "swpweight" /\ b \in {"I", "F861", "Z"} -> "missing"
      [] fault = "img_empty" /\ k = "swpweight" /\ b = "F378" -> "empty"
      [] OTHER -> "ok"

EnvOf(fault) ==
    [ fault   |-> fault,
      tileimg |-> [tile \in TileSet |-> [k \in KindSet |-> [b \in BandSet |-> TileImgOf(fault, k, b)]]],
      detimg  |-> [tile \in TileSet |-> fault # "det_missing"],
      \* the columns of {tile}_ZP.cat, or no file
      zpcat   |-> [tile \in TileSet |->
                     [exists |-> fault # "zpcat_absent",
                      cols   |-> IF fault = "zpcat_nocol" THEN BandSet \ {"R"} ELSE BandSet]],
      \* the bands whose SPLUS_<band>_offsets_grid.npy exists
      zpgrid  |-> IF fault = "grid_absent" THEN BandSet \ {"Z"} ELSE BandSet,
      sex     |-> fault # "sex_fails",
      \* which sky the detection image shows and which catalogue the tool
      \* extracts from it
      sky     |-> 0,
      cat     |-> 0,
      \* what the tile images show: 0 a sky with negative, zero and positive
      \* counts, 1 a flat of counts 1, 2 a field of negative counts
      img     |-> 0 ]

\* the object's pixel position in a tile (wcs.all_world2pix): X0TILE, Y0TILE
X0(tile) == 4000 + 1000 * TileIdx(tile)

Y0(tile) == 3000 - 1000 * TileIdx(tile)

\* GAIN and EFECTIME of a tile image header
GainOf(tile, b) == TileIdx(tile) + BandIdx(b)

EffTimeOf(tile, b) == 100 * TileIdx(tile) + 3 * BandIdx(b)

\* HIERARCH OAJ PRO FWHMMEAN of a tile image header, in hundredths of a pixel
FwhmOf(tile, b) == 200 + 10 * TileIdx(tile) + BandIdx(b)

(***************************************************************************)
(* Files.  The stamps of one (tile, size) are kept as the set `have` of the *)
(* (kind, band) pairs whose file exists and the function `magzp` from the   *)
(* bands whose data stamp header holds MAGZP to the stored value; every     *)
(* other header field and the pixel data of a stamp are fixed by the tile   *)
(* image it was cut from.  A header is a record; a keyword is present when  *)
(* it is in the record's domain.                                            *)
(***************************************************************************)
Absent == [exists |-> FALSE]

HasKey(h, key) == key \in DOMAIN h

StampExists(st, t, k, b) == <<k, b>> \in st[t].have

\* the header make_stamps_splus writes for (tile, band, kind): lines 209-222
HeaderTable ==
    [tile \in TileSet |-> [k \in KindSet |-> [b \in BandSet |->
        IF k = "swp"
        THEN [FILTER |-> b, GAIN |-> GainOf(tile, b), TILE |-> tile,
              EFFTIME |-> EffTimeOf(tile, b), PSFFWHM |-> FwhmOf(tile, b),
              X0TILE |-> X0(tile), Y0TILE |-> Y0(tile)]
        ELSE [FILTER |-> b, GAIN |-> GainOf(tile, b), TILE |-> tile,
              PSFFWHM |-> FwhmOf(tile, b),
              X0TILE |-> X0(tile), Y0TILE |-> Y0(tile)]]]]

NewHeader(tile, size, k, b) == HeaderTable[tile][k][b]

\* fits.getheader(img, ext=1) of an existing stamp
GetHeader(st, t, k, b) ==
    LET h == NewHeader(t[1], t[2], k, b)
    IN  IF k = "swp" /\ b \in DOMAIN st[t].magzp
        THEN [key \in DOMAIN h \cup {"MAGZP"} |->
                 IF key = "MAGZP" THEN st[t].magzp[b] ELSE h[key]]
        ELSE h

\* fits.getdata(img, 1) of an existing stamp: the cutout of the tile image
GetData(t, k, b) == <<t[1], t[2], k, b>>

\* what a run wrote is recorded per kind of file and (tile, size): the stamp
\* files of t, and the headers of the data stamps of t
StampPath(t, k, b) == <<"stamp", t>>

HeaderPath(t, b) == <<"stamp_header", t>>

NPairs == Len(Kinds) * Len(Bands)

\* the (img_type, band) pairs in the order of the loops of lines 175-177
Pairs ==
    [j \in 1..NPairs |->
        <<Kinds[((j - 1) \div Len(Bands)) + 1], Bands[((j - 1) % Len(Bands)) + 1]>>]

PairKind(j) == Pairs[j][1]

PairBand(j) == Pairs[j][2]

Min(S) == CHOOSE x \in S : \A y \in S : x <= y

\* make_stamps_splus whose rewritten data stamps keep the MAGZP they held
make_stamps_splus_keeps_zp(st, tile, size, redo) ==
    LET t       == <<tile, size>>
        missing == {j \in 1..NPairs : env.tileimg[tile][PairKind(j)][PairBand(j)] = "missing"}
        stop    == IF missing = {} THEN NPairs + 1 ELSE Min(missing)
        done    == {j \in 1..(stop - 1) :
                       /\ ~(StampExists(st, t, PairKind(j), PairBand(j)) /\ ~redo)
                       /\ env.tileimg[tile][PairKind(j)][PairBand(j)] # "empty"}
        newdata == {PairBand(j) : j \in {i \in done : PairKind(i) = "swp"}}
    IN  [ stamps  |-> [st EXCEPT ![t] =
                         [have  |-> @.have \cup {<<PairKind(j), PairBand(j)>> : j \in done},
                          magzp |-> @.magzp]],
          written |-> {StampPath(t, PairKind(j), PairBand(j)) : j \in done},
          raised  |-> missing # {} ]

\* make_stamps_splus(redo) of a process whose object has (tile, size), lines
\* 175-228: the loops over img_type and band, pair after pair.  The tile image
\* is read before the exists-check; the first missing tile image raises out of
\* the loops and leaves what was written before it.  An existing stamp is
\* kept unless redo; an empty cutout is skipped; every other pair is written
\* as a new file (a new data stamp holds no MAGZP).
make_stamps_splus(st, tile, size, redo) ==
    LET t       == <<tile, size>>
        missing == {j \in 1..NPairs : env.tileimg[tile][PairKind(j)][PairBand(j)] = "missing"}
        stop    == IF missing = {} THEN NPairs + 1 ELSE Min(missing)
        done    == {j \in 1..(stop - 1) :
                       /\ ~(StampExists(st, t, PairKind(j), PairBand(j)) /\ ~redo)
                       /\ env.tileimg[tile][PairKind(j)][PairBand(j)] # "empty"}
        newdata == {PairBand(j) : j \in {i \in done : PairKind(i) = "swp"}}
    IN  [ stamps  |-> [st EXCEPT ![t] =
                         [have  |-> @.have \cup {<<PairKind(j), PairBand(j)>> : j \in done},
                          magzp |-> [x \in DOMAIN @.magzp \ newdata |-> @.magzp[x]]]],
          written |-> {StampPath(t, PairKind(j), PairBand(j)) : j \in done},
          raised  |-> missing # {} ]

\* CountStamps that counts the data stamps only, each of them twice
CountStamps_data_twice(st, t) == 2 * Cardinality({kb \in st[t].have : kb[1] = "swp"})

\* glob(galdir + '/{galaxy}_{tile}_*_{size}x{size}_swp*.fits'): data and weight stamps
CountStamps(st, t) == Cardinality(st[t].have)

(***************************************************************************)
(* make_det_stamp, lines 262-300                                           *)
(***************************************************************************)
\* pixel (x, y) of the detection image cut for (tile, size)
DetPixel(tile, size, x, y) ==
    (((3 + env.sky) * x + 5 * y + TileIdx(tile) + size) % 7) - 1

Pixels(size) == (0..(size - 1)) \X (0..(size - 1))

\* f[1].data of the detection stamp of (tile, size)
DetData(tile, size) == [xy \in Pixels(size) |-> DetPixel(tile, size, xy[1], xy[2])]

\* the detection stamp is cut only when its file is absent; a missing tile
\* detection image raises (both the .fits and the .fits.fz open fail)
make_det_stamp(det, tile, size) ==
    LET t == <<tile, size>>
    IN  IF det[t]
        THEN [det |-> det, written |-> {}, raised |-> FALSE]
        ELSE IF ~env.detimg[tile]
        THEN [det |-> det, written |-> {}, raised |-> TRUE]
        ELSE [det |-> [det EXCEPT ![t] = TRUE],
              written |-> {<<"det", t>>}, raised |-> FALSE]

(***************************************************************************)
(* Calibration: get_zps, get_zp_correction, calibrate_stamps               *)
(***************************************************************************)
\* zps[filtername].data[0] of {tile}_ZP.cat, in units of 1e-5 mag
get_zps(tile, b) == 2000000 + 10000 * TileIdx(tile) + 100 * BandIdx(b)

\* round(zpcorr[filtername](x0, y0)[0][0], 5), in units of 1e-5 mag
get_zp_correction(b, x0, y0) == ((BandIdx(b) * x0 + y0) % 41) - 20

\* StampZP that adds the correction to the zero point already stored in the
\* header, when there is one
StampZP_accumulates(tile, h) ==
    (IF HasKey(h, "MAGZP") THEN h.MAGZP ELSE get_zps(tile, h.FILTER))
        + get_zp_correction(h.FILTER, h.X0TILE, h.Y0TILE)

\* lines 349-352: the zero point stored for a stamp with header h
StampZP(tile, h) == get_zps(tile, h.FILTER) + get_zp_correction(h.FILTER, h.X0TILE, h.Y0TILE)

\* sorted(os.listdir(galdir)) restricted to *_swp.fits: names compare by tile,
\* then band, then size
SortedTiles == <<"T1", "T2">>

SortedSizes == <<4, 5>>

NListed == Len(SortedTiles) * Len(SortedBands) * Len(SortedSizes)

\* the names {galaxy}_{tile}_{band}_{size}x{size}_swp.fits in sorted order
Listed ==
    [j \in 1..NListed |->
        [ tile |-> SortedTiles[((j - 1) \div (Len(SortedBands) * Len(SortedSizes))) + 1],
          band |-> SortedBands[(((j - 1) \div Len(SortedSizes)) % Len(SortedBands)) + 1],
          size |-> SortedSizes[((j - 1) % Len(SortedSizes)) + 1] ]]

ListedBand(j) == Listed[j].band

ListedTriple(j) == <<Listed[j].tile, Listed[j].size>>

\* stamps: the places in the sorted listing whose data stamp file exists
ListedStamps(st) ==
    {j \in 1..NListed : /\ ListedTriple(j) \in DOMAIN st
                        /\ StampExists(st, ListedTriple(j), "swp", ListedBand(j))}

\* calibrate_stamps that takes only the data stamps of the configured tile
calibrate_stamps_own_tile(st, tile) ==
    IF ~env.zpcat[tile].exists \/ env.zpgrid # BandSet
    THEN [stamps |-> st, written |-> {}, raised |-> TRUE]
    ELSE
    LET listed == {j \in ListedStamps(st) : ListedTriple(j)[1] = tile}
        nocol  == {j \in listed :
                      GetHeader(st, ListedTriple(j), "swp", ListedBand(j)).FILTER
                          \notin env.zpcat[tile].cols}
        stop   == IF nocol = {} THEN NListed + 1 ELSE Min(nocol)
        done   == {j \in listed : j < stop}
        set    == [t \in DOMAIN st |-> {ListedBand(j) : j \in {i \in done : ListedTriple(i) = t}}]
    IN  [ stamps  |-> [t \in DOMAIN st |->
                         [st[t] EXCEPT !.magzp =
                             [b \in DOMAIN @ \cup set[t] |->
                                 IF b \in set[t]
                                 THEN StampZP(tile, GetHeader(st, t, "swp", b))
                                 ELSE @[b]]]],
          written |-> {HeaderPath(ListedTriple(j), ListedBand(j)) : j \in done},
          raised  |-> nocol # {} ]

\* calibrate_stamps() of a process whose configured tile is `tile`, lines
\* 341-354: the table and the grids are loaded first, then every data stamp
\* of the directory, in sorted order, gets MAGZP set or replaced
\* (fits.setval).  The first stamp whose band has no column in the table
\* raises out of the loop and leaves the stamps before it calibrated.
calibrate_stamps(st, tile) ==
    IF ~env.zpcat[tile].exists \/ env.zpgrid # BandSet
    THEN [stamps |-> st, written |-> {}, raised |-> TRUE]
    ELSE
    LET listed == ListedStamps(st)
        nocol  == {j \in listed :
                      GetHeader(st, ListedTriple(j), "swp", ListedBand(j)).FILTER
                          \notin env.zpcat[tile].cols}
        stop   == IF nocol = {} THEN NListed + 1 ELSE Min(nocol)
        done   == {j \in listed : j < stop}
        set    == [t \in DOMAIN st |-> {ListedBand(j) : j \in {i \in done : ListedTriple(i) = t}}]
    IN  [ stamps  |-> [t \in DOMAIN st |->
                         [st[t] EXCEPT !.magzp =
                             [b \in DOMAIN @ \cup set[t] |->
                                 IF b \in set[t]
                                 THEN StampZP(tile, GetHeader(st, t, "swp", b))
                                 ELSE @[b]]]],
          written |-> {HeaderPath(ListedTriple(j), ListedBand(j)) : j \in done},
          raised  |-> nocol # {} ]

(***************************************************************************)
(* Mask building: run_sex and calc_masks                                   *)
(***************************************************************************)
\* self.angsize = None
NoAngsize == -1

\* the catalogue the extraction tool returns for the detection stamp: one row
\* is a galaxy (row 2 for the catalogues 0 and 1), the other rows are stars.
\* FWHM_IMAGE in tenths of a pixel, CLASS_STAR in hundredths.
SexCatalog(tile, size) ==
    [j \in 1..(NStars + 1) |->
        [ X_IMAGE    |-> (2 * j + TileIdx(tile) + env.cat) % size,
          Y_IMAGE    |-> (j + 1 + 2 * env.cat) % size,
          FWHM_IMAGE |-> IF (j + env.cat) % 2 = 1 THEN 2 ELSE 1 + 3 * env.cat,
          CLASS_STAR |-> IF j = 2 - (env.cat \div 2) THEN 3 ELSE 95 ]]

\* sewpos[mask], radius[mask]: the rows with CLASS_STAR > class_star, in order
RECURSIVE SelectStars(_, _)
SelectStars(cat, thr) ==
    IF cat = <<>> THEN <<>>
    ELSE IF Head(cat).CLASS_STAR > thr
         THEN <<Head(cat)>> \o SelectStars(Tail(cat), thr)
         ELSE SelectStars(Tail(cat), thr)

\* the k-th smallest value of a raster (k from 1)
KthSmallest(data, k) ==
    CHOOSE v \in {data[p] : p \in DOMAIN data} :
        /\ Cardinality({p \in DOMAIN data : data[p] < v}) < k
        /\ Cardinality({p \in DOMAIN data : data[p] <= v}) >= k

Abs(n) == IF n < 0 THEN -n ELSE n

\* 1000 * abs(np.percentile(ddata, 2.3)), linear interpolation between the
\* two nearest order statistics
PercentileThreshold(data) ==
    LET n   == Cardinality(DOMAIN data)
        pos == 23 * (n - 1)
        lo  == pos \div 1000
        fr  == pos % 1000
        a   == KthSmallest(data, lo + 1)
        b   == IF lo + 2 <= n THEN KthSmallest(data, lo + 2) ELSE a
    IN  Abs(1000 * a + fr * (b - a))

\* lines 495-499: fdata = ddata * fmask, fmask = ddata > abs(percentile)
FData(ddata) ==
    LET thr == PercentileThreshold(ddata)
    IN  [p \in DOMAIN ddata |-> IF 1000 * ddata[p] > thr THEN ddata[p] ELSE 0]

\* OutsideRadius that clips at the diameter, 2 * 1.1 * R, instead of the radius
OutsideRadius_diameter(p, size, R) ==
    100 * ((2 * p[1] - (size - 1)) * (2 * p[1] - (size - 1))
           + (2 * p[2] - (size - 1)) * (2 * p[2] - (size - 1))) > 16 * 121 * R * R

\* line 551-552: distance > angsize, with angsize = 1.1 * R and the centre of
\* the stamp at ((size - 1) / 2, (size - 1) / 2)
OutsideRadius(p, size, R) ==
    100 * ((2 * p[1] - (size - 1)) * (2 * p[1] - (size - 1))
           + (2 * p[2] - (size - 1)) * (2 * p[2] - (size - 1))) > 4 * 121 * R * R

\* lines 557-558: distance <= z, with z = 3.0 * (FWHM_IMAGE / 0.55)
InsideCircle(p, star) ==
    121 * ((p[1] - star.X_IMAGE) * (p[1] - star.X_IMAGE)
           + (p[2] - star.Y_IMAGE) * (p[2] - star.Y_IMAGE))
        <= 36 * star.FWHM_IMAGE * star.FWHM_IMAGE

\* MaskedData that zeroes the circles whose index is in the keep list and
\* spares the others
MaskedData_masks_kept(ddata, stars, size, R, keep) ==
    LET fdata == FData(ddata)
    IN  [p \in DOMAIN ddata |->
            IF OutsideRadius(p, size, R) THEN 0
            ELSE IF \E n \in 1..Len(stars) : n \in keep /\ InsideCircle(p, stars[n]) THEN 0
            ELSE fdata[p]]

\* lines 549-558: maskeddata
MaskedData(ddata, stars, size, R, keep) ==
    LET fdata == FData(ddata)
    IN  [p \in DOMAIN ddata |->
            IF OutsideRadius(p, size, R) THEN 0
            ELSE IF \E n \in 1..Len(stars) : n \notin keep /\ InsideCircle(p, stars[n]) THEN 0
            ELSE fdata[p]]

\* lines 573-575: the mask raster, 1 where maskeddata > 0 and 0 elsewhere,
\* kept as the set of the pixels that are 1
MaskRaster(ddata, stars, size, R, keep) ==
    LET md == MaskedData(ddata, stars, size, R, keep)
    IN  {p \in DOMAIN ddata : md[p] > 0}

SeqToSet(q) == {q[i] : i \in 1..Len(q)}

\* calc_masks that writes the mask file on every call, whatever savemask says
calc_masks_always_saves(d, angsize, tile, size, savemask, savefig, mstars) ==
    LET t == <<tile, size>>
        fail(dd, wr, nsex) ==
            [fs |-> dd, written |-> wr, raised |-> TRUE, sex |-> nsex, mask |-> Absent]
    IN  IF angsize = NoAngsize THEN fail(d, {}, 0)
        ELSE IF ~d.det[t] THEN fail(d, {}, 0)
        ELSE IF ~env.sex THEN fail(d, {}, 1)
        ELSE
        LET d1  == [d EXCEPT !.sexcat[t] = TRUE, !.seg[t] = TRUE]
            wr1 == {<<"sexcat", t>>, <<"segmentation", t>>}
        IN  IF \E b \in BandSet : ~StampExists(d.stamps, t, "swp", b)
            THEN fail(d1, wr1, 1)
            ELSE
            LET stars == SelectStars(SexCatalog(tile, size), class_star)
                mask  == [exists |-> TRUE,
                          hdr    |-> [IMGTYPE |-> "MASK"],
                          data   |-> MaskRaster(DetData(tile, size), stars, size, angsize,
                                                SeqToSet(mstars))]
                d2    == [d1 EXCEPT !.rgb[t] = TRUE,
                                    !.mask[t] = mask,
                                    !.fig[t] = IF savefig THEN TRUE ELSE @]
                wr2   == wr1 \cup {<<"rgb", t>>, <<"mask", t>>}
                           \cup (IF savefig THEN {<<"maskMosaic", t>>} ELSE {})
            IN  [fs |-> d2, written |-> wr2, raised |-> FALSE, sex |-> 1, mask |-> mask]

\* calc_masks that meets the missing radius only after the extraction
calc_masks_late_angsize(d, angsize, tile, size, savemask, savefig, mstars) ==
    LET t == <<tile, size>>
        fail(dd, wr, nsex) ==
            [fs |-> dd, written |-> wr, raised |-> TRUE, sex |-> nsex, mask |-> Absent]
    IN  IF ~d.det[t] THEN fail(d, {}, 0)
        ELSE IF ~env.sex THEN fail(d, {}, 1)                       
        ELSE
        LET d1  == [d EXCEPT !.sexcat[t] = TRUE, !.seg[t] = TRUE]
            wr1 == {<<"sexcat", t>>, <<"segmentation", t>>}
        IN  IF angsize = NoAngsize THEN fail(d1, wr1, 1)
            ELSE IF \E b \in BandSet : ~StampExists(d.stamps, t, "swp", b)
            THEN fail(d1, wr1, 1)
            ELSE
            LET stars == SelectStars(SexCatalog(tile, size), class_star)
                mask  == [exists |-> TRUE,
                          hdr    |-> [IMGTYPE |-> "MASK"],
                          data   |-> MaskRaster(DetData(tile, size), stars, size, angsize,
                                                SeqToSet(mstars))]
                d2    == [d1 EXCEPT !.rgb[t] = TRUE,
                                    !.mask[t] = IF savemask THEN mask ELSE @,
                                    !.fig[t] = IF savefig THEN TRUE ELSE @]
                wr2   == wr1 \cup {<<"rgb", t>>}
                           \cup (IF savemask THEN {<<"mask", t>>} ELSE {})
                           \cup (IF savefig THEN {<<"maskMosaic", t>>} ELSE {})
            IN  [fs |-> d2, written |-> wr2, raised |-> FALSE, sex |-> 1, mask |-> mask]

\* calc_masks(galaxy, tile, size, savemask, savefig, maskstars) on directory d
\* for an object with angular radius angsize.  Returns the directory after the
\* call, the paths written, whether it raised, how often the extraction tool
\* ran, and the mask.
calc_masks(d, angsize, tile, size, savemask, savefig, mstars) ==
    LET t == <<tile, size>>
        fail(dd, wr, nsex) ==
            [fs |-> dd, written |-> wr, raised |-> TRUE, sex |-> nsex, mask |-> Absent]
    IN  IF angsize = NoAngsize THEN fail(d, {}, 0)                 \* line 483
        ELSE IF ~d.det[t] THEN fail(d, {}, 0)                     \* line 490
        ELSE IF ~env.sex THEN fail(d, {}, 1)                       \* line 501, run_sex
        ELSE
        LET d1  == [d EXCEPT !.sexcat[t] = TRUE, !.seg[t] = TRUE]
            wr1 == {<<"sexcat", t>>, <<"segmentation", t>>}
        IN  IF \E b \in BandSet : ~StampExists(d.stamps, t, "swp", b)  \* line 520
            THEN fail(d1, wr1, 1)
            ELSE
            LET stars == SelectStars(SexCatalog(tile, size), class_star)
                mask  == [exists |-> TRUE,
                          hdr    |-> [IMGTYPE |-> "MASK"],
                          data   |-> MaskRaster(DetData(tile, size), stars, size, angsize,
                                                SeqToSet(mstars))]
                d2    == [d1 EXCEPT !.rgb[t] = TRUE,
                                    !.mask[t] = IF savemask THEN mask ELSE @,
                                    !.fig[t] = IF savefig THEN TRUE ELSE @]
                wr2   == wr1 \cup {<<"rgb", t>>}
                           \cup (IF savemask THEN {<<"mask", t>>} ELSE {})
                           \cup (IF savefig THEN {<<"maskMosaic", t>>} ELSE {})
            IN  [fs |-> d2, written |-> wr2, raised |-> FALSE, sex |-> 1, mask |-> mask]

(***************************************************************************)
(* make_cubes, lines 603-765, as a process                                 *)
(***************************************************************************)
\* the bands argument: None (self.bands) or a list of the caller
BandsArgs == {Bands, <<"Z", "G", "U">>}

ArgSpace ==
    [redo : BOOLEAN, dodet : BOOLEAN, get_mask : BOOLEAN, bands : BandsArgs]

\* line 603: redo=False, dodet=True, get_mask=True, bands=None
DefaultArgs == [redo |-> FALSE, dodet |-> TRUE, get_mask |-> TRUE, bands |-> Bands]

\* answers at the prompt of line 733, after split() and int()
KeepInputs == {<<1>>, <<NStars, 1>>}

NoCalls == [acquire |-> 0, det |-> 0, calibrate |-> 0, calc_masks |-> 0, run_sex |-> 0, input |-> 0]

\* the locals of make_cubes before their assignment; q1 is the last answer
\* read at the prompt of line 731, and kept the indices typed at the prompt
\* of line 733 since the last answer r
NoLoc ==
    [ short |-> FALSE, cube_exists |-> FALSE, has_errs |-> FALSE, DATA |-> <<>>,
      ERRORS |-> <<>>, tab |-> <<>>, imagemask |-> Absent, q1 |-> "unset", kept |-> {} ]

Triple(p) == <<self[p].tile, self[p].size>>

Bump(c, what, n) == [c EXCEPT ![what] = @ + n]

\* what a call finds in the directory for its (tile, size) when it begins
Snapshot(d, t) ==
    [ cube |-> d.cube[t].exists, mask |-> d.mask[t].exists, det |-> d.det[t],
      nstamps |-> CountStamps(d.stamps, t) ]

\* the run of process p ends by raising `err`
Raise(p, err) ==
    /\ pc' = [pc EXCEPT ![p] = "raised"]
    /\ outcome' = [outcome EXCEPT ![p] = err]

\* a call of make_cubes(redo, dodet, get_mask, bands) begins
Begin(p) ==
    /\ p \in procs
    /\ pc[p] = "idle"
    /\ nruns[p] < MaxRuns
    /\ \E a \in ArgSpace : args' = [args EXCEPT ![p] = a]
    /\ pc' = [pc EXCEPT ![p] = "stamps"]
    /\ nruns' = [nruns EXCEPT ![p] = @ + 1]
    /\ outcome' = [outcome EXCEPT ![p] = "running"]
    /\ pre' = [pre EXCEPT ![p] = Snapshot(fs, Triple(p))]
    /\ UNCHANGED <<fs, env, procs, self, loc, maskstars, nprompt, calls, written, prev>>

\* the call has returned or raised: control is back at the caller, the
\* locals are gone
Return(p) ==
    /\ p \in procs
    /\ pc[p] \in {"done", "raised"}
    /\ pc' = [pc EXCEPT ![p] = "idle"]
    /\ prev' = [prev EXCEPT ![p] = outcome[p]]
    /\ outcome' = [outcome EXCEPT ![p] = "none"]
    /\ args' = [args EXCEPT ![p] = DefaultArgs]
    /\ loc' = [loc EXCEPT ![p] = NoLoc]
    /\ maskstars' = [maskstars EXCEPT ![p] = <<>>]
    /\ nprompt' = [nprompt EXCEPT ![p] = 0]
    /\ calls' = [calls EXCEPT ![p] = NoCalls]
    /\ written' = [written EXCEPT ![p] = {}]
    /\ pre' = [pre EXCEPT ![p] = Snapshot(fs, Triple(p))]
    /\ UNCHANGED <<fs, env, procs, self, nruns>>

\* mc_stamps that acquires a second time when the first acquisition left
\* fewer than 24 stamps, before it gives up
mc_stamps_retries(p) ==
    /\ pc[p] = "stamps"
    /\ IF CountStamps(fs.stamps, Triple(p)) >= MinStamps
       THEN /\ pc' = [pc EXCEPT ![p] = "redo"]
            /\ UNCHANGED <<fs, calls, written, outcome, loc>>
       ELSE LET r1 == make_stamps_splus(fs.stamps, self[p].tile, self[p].size, TRUE)
                again == ~r1.raised /\ CountStamps(r1.stamps, Triple(p)) < MinStamps
                r  == IF again
                      THEN make_stamps_splus(r1.stamps, self[p].tile, self[p].size, TRUE)
                      ELSE r1
            IN  /\ fs' = [fs EXCEPT !.stamps = r.stamps]
                /\ calls' = [calls EXCEPT ![p] = Bump(@, "acquire", IF again THEN 2 ELSE 1)]
                /\ written' = [written EXCEPT ![p] = @ \cup r1.written \cup r.written]
                /\ loc' = [loc EXCEPT ![p].short = TRUE]
                /\ IF r.raised THEN Raise(p, "acquire_error")
                   ELSE IF CountStamps(r.stamps, Triple(p)) < MinStamps
                   THEN Raise(p, "IOError_stamps")
                   ELSE /\ pc' = [pc EXCEPT ![p] = "redo"]
                        /\ UNCHANGED outcome
    /\ UNCHANGED <<env, procs, self, args, maskstars, nprompt, nruns, prev, pre>>

\* mc_stamps without the second count of line 618: the run goes on after the
\* acquisition whatever it brought
mc_stamps_no_recount(p) ==
    /\ pc[p] = "stamps"
    /\ IF CountStamps(fs.stamps, Triple(p)) >= MinStamps
       THEN /\ pc' = [pc EXCEPT ![p] = "redo"]
            /\ UNCHANGED <<fs, calls, written, outcome, loc>>
       ELSE LET r == make_stamps_splus(fs.stamps, self[p].tile, self[p].size, TRUE)
            IN  /\ fs' = [fs EXCEPT !.stamps = r.stamps]
                /\ calls' = [calls EXCEPT ![p] = Bump(@, "acquire", 1)]
                /\ written' = [written EXCEPT ![p] = @ \cup r.written]
                /\ loc' = [loc EXCEPT ![p].short = TRUE]
                /\ IF r.raised THEN Raise(p, "acquire_error")
                   ELSE /\ pc' = [pc EXCEPT ![p] = "redo"]
                        /\ UNCHANGED outcome
    /\ UNCHANGED <<env, procs, self, args, maskstars, nprompt, nruns, prev, pre>>

\* lines 614-619: count the stamps; on a shortfall acquire and count again
mc_stamps(p) ==
    /\ pc[p] = "stamps"
    /\ IF CountStamps(fs.stamps, Triple(p)) >= MinStamps
       THEN /\ pc' = [pc EXCEPT ![p] = "redo"]
            /\ UNCHANGED <<fs, calls, written, outcome, loc>>
       ELSE LET r == make_stamps_splus(fs.stamps, self[p].tile, self[p].size, TRUE)
            IN  /\ fs' = [fs EXCEPT !.stamps = r.stamps]
                /\ calls' = [calls EXCEPT ![p] = Bump(@, "acquire", 1)]
                /\ written' = [written EXCEPT ![p] = @ \cup r.written]
                /\ loc' = [loc EXCEPT ![p].short = TRUE]
                /\ IF r.raised THEN Raise(p, "acquire_error")
                   ELSE IF CountStamps(r.stamps, Triple(p)) < MinStamps
                   THEN Raise(p, "IOError_stamps")
                   ELSE /\ pc' = [pc EXCEPT ![p] = "redo"]
                        /\ UNCHANGED outcome
    /\ UNCHANGED <<env, procs, self, args, maskstars, nprompt, nruns, prev, pre>>

\* lines 621-623: a rebuild acquires every stamp again
mc_redo(p) ==
    /\ pc[p] = "redo"
    /\ IF ~args[p].redo
       THEN /\ pc' = [pc EXCEPT ![p] = "det"]
            /\ UNCHANGED <<fs, calls, written, outcome>>
       ELSE LET r == make_stamps_splus(fs.stamps, self[p].tile, self[p].size, TRUE)
            IN  /\ fs' = [fs EXCEPT !.stamps = r.stamps]
                /\ calls' = [calls EXCEPT ![p] = Bump(@, "acquire", 1)]
                /\ written' = [written EXCEPT ![p] = @ \cup r.written]
                /\ IF r.raised THEN Raise(p, "acquire_error")
                   ELSE /\ pc' = [pc EXCEPT ![p] = "det"]
                        /\ UNCHANGED outcome
    /\ UNCHANGED <<env, procs, self, args, loc, maskstars, nprompt, nruns, prev, pre>>

\* lines 624-628: the detection stamp, when asked for or when a mask is wanted
mc_det(p) ==
    /\ pc[p] = "det"
    /\ IF ~(args[p].dodet \/ args[p].get_mask)
       THEN /\ pc' = [pc EXCEPT ![p] = "exists"]
            /\ UNCHANGED <<fs, calls, written, outcome>>
       ELSE LET r == make_det_stamp(fs.det, self[p].tile, self[p].size)
            IN  /\ fs' = [fs EXCEPT !.det = r.det]
                /\ calls' = [calls EXCEPT ![p] = Bump(@, "det", 1)]
                /\ written' = [written EXCEPT ![p] = @ \cup r.written]
                /\ IF r.raised THEN Raise(p, "det_error")
                   ELSE /\ pc' = [pc EXCEPT ![p] = "exists"]
                        /\ UNCHANGED outcome
    /\ UNCHANGED <<env, procs, self, args, loc, maskstars, nprompt, nruns, prev, pre>>

\* SkipCube without the check: no cube is ever skipped
SkipCube_no_check(exists, redo) == FALSE

\* line 641: os.path.exists(cubename) and not redo
SkipCube(exists, redo) == exists /\ ~redo

\* lines 638-643: an existing cube is kept unless a rebuild is asked for
mc_exists(p) ==
    /\ pc[p] = "exists"
    /\ loc' = [loc EXCEPT ![p].cube_exists = fs.cube[Triple(p)].exists]
    /\ IF SkipCube(fs.cube[Triple(p)].exists, args[p].redo)
       THEN /\ pc' = [pc EXCEPT ![p] = "done"]
            /\ outcome' = [outcome EXCEPT ![p] = "skipped"]
       ELSE /\ pc' = [pc EXCEPT ![p] = "headers"]
            /\ UNCHANGED outcome
    /\ UNCHANGED <<fs, env, procs, self, args, maskstars, nprompt, calls, written, nruns, prev, pre>>

\* MetadataTable that names the rows after self.bands instead of the bands
\* argument
MetadataTable_self_bands(bands, headers) ==
    [i \in 1..Len(bands) |->
        [ FILTER   |-> Bands[i],
          WAVE_EFF |-> wave_eff(Bands[i]),
          EXPTIME  |-> headers[i].EFFTIME,
          GAIN     |-> headers[i].GAIN,
          PSFFWHM  |-> headers[i].PSFFWHM ]]

\* lines 692-702: the METADATA table, one row per band of the bands argument
MetadataTable(bands, headers) ==
    [i \in 1..Len(bands) |->
        [ FILTER   |-> bands[i],
          WAVE_EFF |-> wave_eff(bands[i]),
          EXPTIME  |-> headers[i].EFFTIME,
          GAIN     |-> headers[i].GAIN,
          PSFFWHM  |-> headers[i].PSFFWHM ]]

\* the pixels of the tile images, by what the images show (env.img), tile,
\* kind and band: counts of the data images, weights (1..3) of the weight
\* images
PixelTable ==
    [img \in 0..2 |-> [tile \in TileSet |-> [k \in KindSet |-> [b \in BandSet |->
        [xy \in Pixels(5) |->
            IF k = "swpweight" THEN 1 + ((xy[1] + xy[2] + BandIdx(b)) % 3)
            ELSE IF img = 0 THEN ((xy[1] + 2 * xy[2] + BandIdx(b) + TileIdx(tile)) % 5) - 1
            ELSE IF img = 1 THEN 1
            ELSE 0 - 1 - ((xy[1] + xy[2] + BandIdx(b)) % 2)]]]]]

\* the values of fits.getdata(img, 1) of an existing stamp
GetPixels(t, k, b) == [xy \in Pixels(t[2]) |-> PixelTable[env.img][t[1]][k][b][xy]]

\* the GAIN values of the headers
Gains == {GainOf(tile, b) : tile \in TileSet, b \in BandSet}

\* a pixel of fnu and of flam (lines 682-684) is the count times the
\* conversion factor 10^(-0.4 (48.6 + m0)) c / wave^2 / bscale of its plane;
\* a plane keeps m0 and wave, which fix the factor, and per pixel the number
\* the factor is multiplied with
FluxValue(counts) == counts

\* ErrValue that leaves the gain out: 1 / weights + clip(data, 0, inf)
ErrValue_no_gain(weight, counts, gain) ==
    <<1 + (IF counts > 0 THEN counts ELSE 0) * weight, weight>>

\* line 687: dataerr = 1.0 / weights + np.clip(data, 0, np.infty) / gain, as
\* the fraction <<numerator, denominator>>
ErrValue(weight, counts, gain) ==
    <<gain + (IF counts > 0 THEN counts ELSE 0) * weight, weight * gain>>

\* data * (factor) and dataerr * (factor), pixel by pixel, tabulated for the
\* stamps of each sky, tile, size and band (and each gain)
FluxPixels ==
    [img \in 0..2 |-> [tile \in TileSet |-> [size \in {4, 5} |-> [b \in BandSet |->
        [xy \in Pixels(size) |-> FluxValue(PixelTable[img][tile]["swp"][b][xy])]]]]]

ErrPixels ==
    [img \in 0..2 |-> [tile \in TileSet |-> [size \in {4, 5} |-> [b \in BandSet |->
        [gain \in Gains |->
            [xy \in Pixels(size) |->
                ErrValue(PixelTable[img][tile]["swpweight"][b][xy],
                         PixelTable[img][tile]["swp"][b][xy], gain)]]]]]]

\* lines 671-684: the flux planes, from the data read of imgs and the zero
\* points and wavelengths in the order of the bands argument
FluxPlanes(bands, headers, t) ==
    [i \in 1..Len(bands) |->
        [ data |-> GetData(t, "swp", bands[i]),
          m0   |-> headers[i].MAGZP,
          wave |-> wave_eff(bands[i]),
          pix  |-> FluxPixels[env.img][t[1]][t[2]][bands[i]] ]]

\* lines 685-690: the error planes: 1 / weights + clip(data, 0, inf) / gain,
\* taken through the same conversion as the flux
ErrorPlanes(bands, headers, t) ==
    [i \in 1..Len(bands) |->
        [ weights |-> GetData(t, "swpweight", bands[i]),
          data    |-> GetData(t, "swp", bands[i]),
          gain    |-> headers[i].GAIN,
          m0      |-> headers[i].MAGZP,
          wave    |-> wave_eff(bands[i]),
          pix     |-> ErrPixels[env.img][t[1]][t[2]][bands[i]][headers[i].GAIN] ]]

\* lines 645-648: headers = [fits.getheader(img, ext=1) for img in imgs]
Headers(st, t, bands) == [i \in 1..Len(bands) |-> GetHeader(st, t, "swp", bands[i])]

\* lines 653-655: has_errs
HasErrs(st, t, bands) == \A i \in 1..Len(bands) : StampExists(st, t, "swpweight", bands[i])

\* mc_headers that calibrates in every run, also when every header has MAGZP
mc_headers_always_calibrates(p) ==
    /\ pc[p] = "headers"
    /\ LET t     == Triple(p)
           bands == args[p].bands
       IN  IF \E i \in 1..Len(bands) : ~StampExists(fs.stamps, t, "swp", bands[i])
           THEN /\ Raise(p, "header_error")
                /\ UNCHANGED <<fs, calls, written, loc>>
           ELSE LET r == calibrate_stamps(fs.stamps, self[p].tile)
                    h == Headers(r.stamps, t, bands)
                IN  /\ fs' = [fs EXCEPT !.stamps = r.stamps]
                    /\ calls' = [calls EXCEPT ![p] = Bump(@, "calibrate", 1)]
                    /\ written' = [written EXCEPT ![p] = @ \cup r.written]
                    /\ IF r.raised
                       THEN /\ Raise(p, "calibrate_error")
                            /\ UNCHANGED loc
                       ELSE IF \E i \in 1..Len(bands) : ~HasKey(h[i], "MAGZP")
                       THEN /\ Raise(p, "KeyError_MAGZP")
                            /\ UNCHANGED loc
                       ELSE /\ pc' = [pc EXCEPT ![p] = "mask"]
                            /\ loc' = [loc EXCEPT
                                  ![p].has_errs = HasErrs(r.stamps, t, bands),
                                  ![p].DATA     = FluxPlanes(bands, h, t),
                                  ![p].ERRORS   = IF HasErrs(r.stamps, t, bands)
                                                  THEN ErrorPlanes(bands, h, t)
                                                  ELSE <<>>,
                                  ![p].tab      = MetadataTable(bands, h)]
                            /\ UNCHANGED outcome
    /\ UNCHANGED <<env, procs, self, args, maskstars, nprompt, nruns, prev, pre>>

\* lines 645-718: load the headers, calibrate when a zero point is missing,
\* load them again, convert to flux and build the table
mc_headers(p) ==
    /\ pc[p] = "headers"
    /\ LET t     == Triple(p)
           bands == args[p].bands
       IN  IF \E i \in 1..Len(bands) : ~StampExists(fs.stamps, t, "swp", bands[i])
           THEN /\ Raise(p, "header_error")
                /\ UNCHANGED <<fs, calls, written, loc>>
           ELSE IF \A i \in 1..Len(bands) : HasKey(Headers(fs.stamps, t, bands)[i], "MAGZP")
           THEN /\ pc' = [pc EXCEPT ![p] = "mask"]
                /\ loc' = [loc EXCEPT
                      ![p].has_errs = HasErrs(fs.stamps, t, bands),
                      ![p].DATA     = FluxPlanes(bands, Headers(fs.stamps, t, bands), t),
                      ![p].ERRORS   = IF HasErrs(fs.stamps, t, bands)
                                      THEN ErrorPlanes(bands, Headers(fs.stamps, t, bands), t)
                                      ELSE <<>>,
                      ![p].tab      = MetadataTable(bands, Headers(fs.stamps, t, bands))]
                /\ UNCHANGED <<fs, calls, written, outcome>>
           ELSE LET r == calibrate_stamps(fs.stamps, self[p].tile)
                    h == Headers(r.stamps, t, bands)
                IN  /\ fs' = [fs EXCEPT !.stamps = r.stamps]
                    /\ calls' = [calls EXCEPT ![p] = Bump(@, "calibrate", 1)]
                    /\ written' = [written EXCEPT ![p] = @ \cup r.written]
                    /\ IF r.raised
                       THEN /\ Raise(p, "calibrate_error")
                            /\ UNCHANGED loc
                       ELSE IF \E i \in 1..Len(bands) : ~HasKey(h[i], "MAGZP")
                       THEN /\ Raise(p, "KeyError_MAGZP")
                            /\ UNCHANGED loc
                       ELSE /\ pc' = [pc EXCEPT ![p] = "mask"]
                            /\ loc' = [loc EXCEPT
                                  ![p].has_errs = HasErrs(r.stamps, t, bands),
                                  ![p].DATA     = FluxPlanes(bands, h, t),
                                  ![p].ERRORS   = IF HasErrs(r.stamps, t, bands)
                                                  THEN ErrorPlanes(bands, h, t)
                                                  ELSE <<>>,
                                  ![p].tab      = MetadataTable(bands, h)]
                            /\ UNCHANGED outcome
    /\ UNCHANGED <<env, procs, self, args, maskstars, nprompt, nruns, prev, pre>>

\* mc_mask that builds the mask again when its file exists
mc_mask_ignores_file(p) ==
    /\ pc[p] = "mask"
    /\ IF ~args[p].get_mask
       THEN /\ pc' = [pc EXCEPT ![p] = "write"]
            /\ UNCHANGED <<fs, calls, written, outcome, loc>>
       ELSE LET r == calc_masks(fs, self[p].angsize, self[p].tile, self[p].size,
                                FALSE, FALSE, <<>>)
            IN  /\ fs' = r.fs
                /\ calls' = [calls EXCEPT ![p] = Bump(Bump(@, "calc_masks", 1), "run_sex", r.sex)]
                /\ written' = [written EXCEPT ![p] = @ \cup r.written]
                /\ UNCHANGED loc
                /\ IF r.raised THEN Raise(p, "mask_error")
                   ELSE /\ pc' = [pc EXCEPT ![p] = "prompt"]
                        /\ UNCHANGED outcome
    /\ maskstars' = [maskstars EXCEPT ![p] = <<>>]
    /\ UNCHANGED <<env, procs, self, args, nprompt, nruns, prev, pre>>

\* lines 719-729: no mask wanted, or the existing mask file, or the first
\* calc_masks call (nothing saved) that opens the REFINE loop
mc_mask(p) ==
    /\ pc[p] = "mask"
    /\ IF ~args[p].get_mask
       THEN /\ pc' = [pc EXCEPT ![p] = "write"]
            /\ UNCHANGED <<fs, calls, written, outcome, loc>>
       ELSE IF fs.mask[Triple(p)].exists
       THEN /\ pc' = [pc EXCEPT ![p] = "write"]
            /\ loc' = [loc EXCEPT ![p].imagemask = fs.mask[Triple(p)]]
            /\ UNCHANGED <<fs, calls, written, outcome>>
       ELSE LET r == calc_masks(fs, self[p].angsize, self[p].tile, self[p].size,
                                FALSE, FALSE, <<>>)
            IN  /\ fs' = r.fs
                /\ calls' = [calls EXCEPT ![p] = Bump(Bump(@, "calc_masks", 1), "run_sex", r.sex)]
                /\ written' = [written EXCEPT ![p] = @ \cup r.written]
                /\ UNCHANGED loc
                /\ IF r.raised THEN Raise(p, "mask_error")
                   ELSE /\ pc' = [pc EXCEPT ![p] = "prompt"]
                        /\ UNCHANGED outcome
    /\ maskstars' = [maskstars EXCEPT ![p] = <<>>]
    /\ UNCHANGED <<env, procs, self, args, nprompt, nruns, prev, pre>>

\* lines 732-739: answer y, then the numbers to keep; the mask is computed
\* again (nothing saved) and the prompt comes back.  A token that is no
\* integer raises ValueError before the keep list changes.
mc_prompt_y(p) ==
    /\ pc[p] = "prompt"
    /\ nprompt[p] < MaxPrompts
    /\ nprompt' = [nprompt EXCEPT ![p] = @ + 1]
    /\ \E integers \in BOOLEAN :
          IF ~integers
          THEN /\ Raise(p, "ValueError")
               /\ calls' = [calls EXCEPT ![p] = Bump(@, "input", 2)]
               /\ loc' = [loc EXCEPT ![p].q1 = "y"]
               /\ UNCHANGED <<fs, written, maskstars>>
          ELSE \E newindx \in KeepInputs :
                 LET r == calc_masks(fs, self[p].angsize, self[p].tile, self[p].size,
                                     FALSE, FALSE, maskstars[p] \o newindx)
                 IN  /\ maskstars' = [maskstars EXCEPT ![p] = @ \o newindx]
                     /\ loc' = [loc EXCEPT ![p].q1 = "y",
                                           ![p].kept = @ \cup SeqToSet(newindx)]
                     /\ fs' = r.fs
                     /\ calls' = [calls EXCEPT ![p] =
                           Bump(Bump(Bump(@, "input", 2), "calc_masks", 1), "run_sex", r.sex)]
                     /\ written' = [written EXCEPT ![p] = @ \cup r.written]
                     /\ IF r.raised THEN Raise(p, "mask_error")
                        ELSE UNCHANGED <<pc, outcome>>
    /\ UNCHANGED <<env, procs, self, args, nruns, prev, pre>>

\* mc_prompt_r that leaves the keep list as it is
mc_prompt_r_keeps(p) ==
    /\ pc[p] = "prompt"
    /\ nprompt[p] < MaxPrompts
    /\ nprompt' = [nprompt EXCEPT ![p] = @ + 1]
    /\ calls' = [calls EXCEPT ![p] = Bump(@, "input", 1)]
    /\ loc' = [loc EXCEPT ![p].q1 = "r", ![p].kept = {}]
    /\ UNCHANGED <<fs, env, procs, self, args, pc, maskstars, written, outcome, nruns, prev, pre>>

\* lines 740-741: answer r, the keep list is emptied
mc_prompt_r(p) ==
    /\ pc[p] = "prompt"
    /\ nprompt[p] < MaxPrompts
    /\ nprompt' = [nprompt EXCEPT ![p] = @ + 1]
    /\ maskstars' = [maskstars EXCEPT ![p] = <<>>]
    /\ calls' = [calls EXCEPT ![p] = Bump(@, "input", 1)]
    /\ loc' = [loc EXCEPT ![p].q1 = "r", ![p].kept = {}]
    /\ UNCHANGED <<fs, env, procs, self, args, pc, written, outcome, nruns, prev, pre>>

\* mc_prompt_empty that takes the empty answer as an accept: the loop ends
mc_prompt_empty_accepts(p) ==
    /\ pc[p] = "prompt"
    /\ nprompt[p] < MaxPrompts
    /\ nprompt' = [nprompt EXCEPT ![p] = @ + 1]
    /\ pc' = [pc EXCEPT ![p] = "finalize"]
    /\ calls' = [calls EXCEPT ![p] = Bump(@, "input", 1)]
    /\ loc' = [loc EXCEPT ![p].q1 = ""]
    /\ UNCHANGED <<fs, env, procs, self, args, maskstars, written, outcome, nruns, prev, pre>>

\* lines 748-749: the empty answer, the prompt comes back
mc_prompt_empty(p) ==
    /\ pc[p] = "prompt"
    /\ nprompt[p] < MaxPrompts
    /\ nprompt' = [nprompt EXCEPT ![p] = @ + 1]
    /\ calls' = [calls EXCEPT ![p] = Bump(@, "input", 1)]
    /\ loc' = [loc EXCEPT ![p].q1 = ""]
    /\ UNCHANGED <<fs, env, procs, self, args, pc, maskstars, written, outcome, nruns, prev, pre>>

\* lines 742-744: answer n, the loop ends
mc_prompt_n(p) ==
    /\ pc[p] = "prompt"
    /\ pc' = [pc EXCEPT ![p] = "finalize"]
    /\ calls' = [calls EXCEPT ![p] = Bump(@, "input", 1)]
    /\ loc' = [loc EXCEPT ![p].q1 = "n"]
    /\ UNCHANGED <<fs, env, procs, self, args, maskstars, nprompt, written, outcome, nruns, prev, pre>>

\* lines 745-747: answer q, make_cubes returns
mc_prompt_q(p) ==
    /\ pc[p] = "prompt"
    /\ pc' = [pc EXCEPT ![p] = "done"]
    /\ outcome' = [outcome EXCEPT ![p] = "quit"]
    /\ calls' = [calls EXCEPT ![p] = Bump(@, "input", 1)]
    /\ loc' = [loc EXCEPT ![p].q1 = "q"]
    /\ UNCHANGED <<fs, env, procs, self, args, maskstars, nprompt, written, nruns, prev, pre>>

\* mc_prompt_other that takes an unknown answer like the empty one: the
\* prompt comes back
mc_prompt_other_repeats(p) ==
    /\ pc[p] = "prompt"
    /\ nprompt[p] < MaxPrompts
    /\ nprompt' = [nprompt EXCEPT ![p] = @ + 1]
    /\ calls' = [calls EXCEPT ![p] = Bump(@, "input", 1)]
    /\ loc' = [loc EXCEPT ![p].q1 = "x"]
    /\ UNCHANGED <<fs, env, procs, self, args, pc, maskstars, written, outcome, nruns, prev, pre>>

\* lines 750-751: any other answer raises IOError('option not recognized')
mc_prompt_other(p) ==
    /\ pc[p] = "prompt"
    /\ Raise(p, "IOError_option")
    /\ calls' = [calls EXCEPT ![p] = Bump(@, "input", 1)]
    /\ loc' = [loc EXCEPT ![p].q1 = "x"]
    /\ UNCHANGED <<fs, env, procs, self, args, maskstars, nprompt, written, nruns, prev, pre>>

\* lines 753-755: the last calc_masks call saves the mask and the figure
mc_finalize(p) ==
    /\ pc[p] = "finalize"
    /\ LET r == calc_masks(fs, self[p].angsize, self[p].tile, self[p].size,
                           TRUE, TRUE, maskstars[p])
       IN  /\ fs' = r.fs
           /\ calls' = [calls EXCEPT ![p] = Bump(Bump(@, "calc_masks", 1), "run_sex", r.sex)]
           /\ written' = [written EXCEPT ![p] = @ \cup r.written]
           /\ IF r.raised
              THEN /\ Raise(p, "mask_error")
                   /\ UNCHANGED loc
              ELSE /\ pc' = [pc EXCEPT ![p] = "write"]
                   /\ loc' = [loc EXCEPT ![p].imagemask = r.mask]
                   /\ UNCHANGED outcome
    /\ UNCHANGED <<env, procs, self, args, maskstars, nprompt, nruns, prev, pre>>

\* CubeLayers that appends the mask after the table
CubeLayers_mask_last(has_errs, get_mask) ==
    <<"PRIMARY", "DATA">> \o (IF has_errs THEN <<"ERRORS">> ELSE <<>>)
        \o <<"METADATA">> \o (IF get_mask THEN <<"MASK">> ELSE <<>>)

\* lines 704-713, 757-763: the layers of the cube, in order
CubeLayers(has_errs, get_mask) ==
    <<"PRIMARY", "DATA">> \o (IF has_errs THEN <<"ERRORS">> ELSE <<>>)
        \o (IF get_mask THEN <<"MASK">> ELSE <<>>) \o <<"METADATA">>

\* lines 757-765: the cube is written, over any existing file
mc_write(p) ==
    /\ pc[p] = "write"
    /\ fs' = [fs EXCEPT !.cube[Triple(p)] =
                [ exists   |-> TRUE,
                  layers   |-> CubeLayers(loc[p].has_errs, args[p].get_mask),
                  DATA     |-> loc[p].DATA,
                  ERRORS   |-> loc[p].ERRORS,
                  MASK     |-> loc[p].imagemask,
                  METADATA |-> loc[p].tab ]]
    /\ written' = [written EXCEPT ![p] = @ \cup {<<"cube", Triple(p)>>}]
    /\ pc' = [pc EXCEPT ![p] = "done"]
    /\ outcome' = [outcome EXCEPT ![p] = "written"]
    /\ UNCHANGED <<env, procs, self, args, loc, maskstars, nprompt, calls, nruns, prev, pre>>

\* a direct call of calibrate_stamps(), lines 334-354
Calibrate(p) ==
    /\ p \in procs
    /\ pc[p] = "idle"
    /\ nruns[p] < MaxRuns
    /\ LET r == calibrate_stamps(fs.stamps, self[p].tile)
       IN  /\ fs' = [fs EXCEPT !.stamps = r.stamps]
           /\ written' = [written EXCEPT ![p] = r.written]
           /\ outcome' = [outcome EXCEPT ![p] =
                            IF r.raised THEN "calibrate_raised" ELSE "calibrate_ok"]
           /\ pc' = [pc EXCEPT ![p] = IF r.raised THEN "raised" ELSE "done"]
    /\ calls' = [calls EXCEPT ![p] = Bump(NoCalls, "calibrate", 1)]
    /\ nruns' = [nruns EXCEPT ![p] = @ + 1]
    /\ pre' = [pre EXCEPT ![p] = Snapshot(fs, Triple(p))]
    /\ UNCHANGED <<env, procs, self, args, loc, maskstars, nprompt, prev>>

(***************************************************************************)
(* Initial states and specifications                                       *)
(***************************************************************************)
\* the directory before the first run: the stamps of the object's own
\* (tile, size) and those of the other (tile, size) pairs; the stamps of one
\* (tile, size) are none, all 24 as acquired, or 20 of 24 (four weight
\* stamps missing)
DirPatterns == {<<"none", "none">>, <<"partial", "full">>, <<"full", "full">>}

\* the directories each fault is met with: an incomplete set of stamps when
\* a tile image cannot be cut, a complete one when a later step fails
Scenario(d, fault) ==
    CASE fault = "none" -> TRUE
      [] fault = "img_missing" -> d[1] \in {"partial", "full"}
      [] fault \in {"img_all_missing", "img_empty"} -> d[1] = "partial"
      [] OTHER -> d[1] = "full"

InitStamps(pattern) ==
    [ have  |-> {kb \in KindSet \X BandSet :
                    \/ pattern = "full"
                    \/ /\ pattern = "partial"
                       /\ ~(kb[1] = "swpweight" /\ kb[2] \in {"F378", "I", "F861", "Z"})},
      magzp |-> <<>> ]

InitFs(triples, own, others) ==
    [ stamps |-> [t \in triples |-> InitStamps(IF t = <<"T1", 5>> THEN own ELSE others)],
      det    |-> [t \in triples |-> FALSE],
      mask   |-> [t \in triples |-> Absent],
      cube   |-> [t \in triples |-> Absent],
      sexcat |-> [t \in triples |-> FALSE],
      seg    |-> [t \in triples |-> FALSE],
      rgb    |-> [t \in triples |-> FALSE],
      fig    |-> [t \in triples |-> FALSE] ]

\* self.angsize: None (the constructor's value) or the radius set by the caller
AngSizeOf(fault) == IF fault = "no_angsize" THEN NoAngsize ELSE 2

InitProcs ==
    /\ args = [p \in ProcIds |-> DefaultArgs]
    /\ pc = [p \in ProcIds |-> "idle"]
    /\ loc = [p \in ProcIds |-> NoLoc]
    /\ maskstars = [p \in ProcIds |-> <<>>]
    /\ nprompt = [p \in ProcIds |-> 0]
    /\ calls = [p \in ProcIds |-> NoCalls]
    /\ written = [p \in ProcIds |-> {}]
    /\ outcome = [p \in ProcIds |-> "none"]
    /\ prev = [p \in ProcIds |-> "none"]
    /\ pre = [p \in ProcIds |-> Snapshot(fs, <<"T1", 5>>)]
    /\ nruns = [p \in ProcIds |-> 0]

\* one SCubes object for (T1, 5)
Init ==
    /\ \E d \in DirPatterns, fault \in Faults :
          /\ Scenario(d, fault)
          /\ fs = InitFs({<<"T1", 5>>, <<"T2", 5>>}, d[1], d[2])
          /\ env = EnvOf(fault)
          /\ self = [p \in ProcIds |-> [tile |-> "T1", size |-> 5, angsize |-> AngSizeOf(fault)]]
    /\ procs = {1}
    /\ InitProcs

Step(p) ==
    \/ Begin(p)
    \/ Return(p)
    \/ mc_stamps(p)
    \/ mc_redo(p)
    \/ mc_det(p)
    \/ mc_exists(p)
    \/ mc_headers(p)
    \/ mc_mask(p)
    \/ mc_prompt_y(p)
    \/ mc_prompt_r(p)
    \/ mc_prompt_empty(p)
    \/ mc_prompt_n(p)
    \/ mc_prompt_q(p)
    \/ mc_prompt_other(p)
    \/ mc_finalize(p)
    \/ mc_write(p)
    \/ Calibrate(p)

Next == \E p \in ProcIds : Step(p)

Spec == Init /\ [][Next]_vars

(***************************************************************************)
(* Two objects for the same galaxy and two different (tile, size) pairs,   *)
(* each making one make_cubes call, interleaved step by step.  Both sets   *)
(* of stamps are in the galaxy's directory, uncalibrated; the calls use    *)
(* the default bands, no redo, and the prompt is answered n, q or with an  *)
(* unknown string.                                                         *)
(***************************************************************************)
\* the (tile, size) of the second object: another tile, or another size
OtherTriples == {<<"T2", 5>>, <<"T1", 4>>}

InitPair ==
    /\ \E o \in OtherTriples :
          /\ fs = InitFs({<<"T1", 5>>, o}, "full", "full")
          /\ self = [p \in ProcIds |->
                       IF p = 1 THEN [tile |-> "T1", size |-> 5, angsize |-> 2]
                       ELSE [tile |-> o[1], size |-> o[2], angsize |-> 2]]
          /\ pre = [p \in ProcIds |-> Snapshot(fs, IF p = 1 THEN <<"T1", 5>> ELSE o)]
    /\ env = EnvOf("none")
    /\ procs = ProcIds
    /\ args = [p \in ProcIds |-> DefaultArgs]
    /\ pc = [p \in ProcIds |-> "idle"]
    /\ loc = [p \in ProcIds |-> NoLoc]
    /\ maskstars = [p \in ProcIds |-> <<>>]
    /\ nprompt = [p \in ProcIds |-> 0]
    /\ calls = [p \in ProcIds |-> NoCalls]
    /\ written = [p \in ProcIds |-> {}]
    /\ outcome = [p \in ProcIds |-> "none"]
    /\ prev = [p \in ProcIds |-> "none"]
    /\ nruns = [p \in ProcIds |-> 0]

\* the one call of each object: make_cubes(get_mask=...) with the defaults
BeginPair(p) ==
    /\ nruns[p] = 0
    /\ Begin(p)
    /\ ~args'[p].redo
    /\ args'[p].dodet
    /\ args'[p].bands = Bands

StepPair(p) ==
    \/ BeginPair(p)
    \/ mc_stamps(p)
    \/ mc_redo(p)
    \/ mc_det(p)
    \/ mc_exists(p)
    \/ mc_headers(p)
    \/ mc_mask(p)
    \/ mc_prompt_n(p)
    \/ mc_prompt_q(p)
    \/ mc_prompt_other(p)
    \/ mc_finalize(p)
    \/ mc_write(p)

NextPair == \E p \in ProcIds : StepPair(p)

SpecPair == InitPair /\ [][NextPair]_vars

(***************************************************************************)
(* calc_masks called directly, lines 471-601: one object for (T1, 5) whose *)
(* stamps and detection stamp are in place.  The sky of the detection      *)
(* image, the catalogue extracted from it, the angular radius and the      *)
(* arguments of each call are drawn from bounded sets.                     *)
(***************************************************************************)
\* self.angsize, in pixels
MaskRadii == {1, 2, 3}

\* env.sky and env.cat: the detection images and the catalogues
SkyIds == 0..2

CatIds == 0..2

\* the maskstars argument: up to two indices, of proposed stars or not
MaskStarsArgs ==
    {<<>>} \cup {<<i>> : i \in 1..(NStars + 1)}
           \cup {<<i, j>> : i \in 1..(NStars + 1), j \in 1..(NStars + 1)}

InitMask ==
    /\ \E sky \in SkyIds, cat \in CatIds, R \in MaskRadii :
          /\ env = [EnvOf("none") EXCEPT !.sky = sky, !.cat = cat]
          /\ self = [p \in ProcIds |-> [tile |-> "T1", size |-> 5, angsize |-> R]]
    /\ fs = [InitFs({<<"T1", 5>>, <<"T2", 5>>}, "full", "full") EXCEPT !.det[<<"T1", 5>>] = TRUE]
    /\ procs = {1}
    /\ InitProcs

\* calc_masks(savemask=..., savefig=..., maskstars=...) with the object's own
\* galaxy, tile, size and angsize; the mask it returns is kept in imagemask
MaskCall(p) ==
    /\ p \in procs
    /\ pc[p] = "idle"
    /\ nruns[p] < MaxRuns
    /\ \E savemask \in BOOLEAN, savefig \in BOOLEAN, ms \in MaskStarsArgs :
          LET r == calc_masks(fs, self[p].angsize, self[p].tile, self[p].size,
                              savemask, savefig, ms)
          IN  /\ fs' = r.fs
              /\ maskstars' = [maskstars EXCEPT ![p] = ms]
              /\ written' = [written EXCEPT ![p] = r.written]
              /\ loc' = [loc EXCEPT ![p].imagemask = r.mask]
              /\ calls' = [calls EXCEPT ![p] = Bump(Bump(NoCalls, "calc_masks", 1), "run_sex", r.sex)]
              /\ outcome' = [outcome EXCEPT ![p] = IF r.raised THEN "mask_raised" ELSE "mask_ok"]
              /\ pc' = [pc EXCEPT ![p] = IF r.raised THEN "raised" ELSE "done"]
    /\ nruns' = [nruns EXCEPT ![p] = @ + 1]
    /\ pre' = [pre EXCEPT ![p] = Snapshot(fs, Triple(p))]
    /\ UNCHANGED <<env, procs, self, args, nprompt, prev>>

NextMask == \E p \in ProcIds : MaskCall(p) \/ Return(p)

SpecMask == InitMask /\ [][NextMask]_vars

(***************************************************************************)
(* make_cubes(get_mask=False) on complete, uncalibrated stamps of (T1, 5)  *)
(* cut from tile images of three kinds: a sky with counts of both signs, a *)
(* flat of counts 1, and a field of negative counts.                       *)
(***************************************************************************)
ImgIds == 0..2

InitFlux ==
    /\ \E img \in ImgIds : env = [EnvOf("none") EXCEPT !.img = img]
    /\ fs = InitFs({<<"T1", 5>>, <<"T2", 5>>}, "full", "full")
    /\ self = [p \in ProcIds |-> [tile |-> "T1", size |-> 5, angsize |-> 2]]
    /\ procs = {1}
    /\ InitProcs

BeginFlux(p) == Begin(p) /\ ~args'[p].get_mask

StepFlux(p) ==
    \/ BeginFlux(p)
    \/ Return(p)
    \/ mc_stamps(p)
    \/ mc_redo(p)
    \/ mc_det(p)
    \/ mc_exists(p)
    \/ mc_headers(p)
    \/ mc_mask(p)
    \/ mc_write(p)

NextFlux == \E p \in ProcIds : StepFlux(p)

SpecFlux == InitFlux /\ [][NextFlux]_vars

(***************************************************************************)
(* make_cubes with every collaborator working: the tile images, the        *)
(* calibration files and the extraction tool are there.  Between two       *)
(* prompts and after the last one the code runs without waiting for        *)
(* anybody, so the steps after the answer n are taken: weak fairness of    *)
(* the saving mask call and of the cube write.  The answers themselves are *)
(* the user's and are not forced.                                          *)
(***************************************************************************)
InitFair ==
    /\ \E d \in DirPatterns : fs = InitFs({<<"T1", 5>>, <<"T2", 5>>}, d[1], d[2])
    /\ env = EnvOf("none")
    /\ self = [p \in ProcIds |-> [tile |-> "T1", size |-> 5, angsize |-> AngSizeOf("none")]]
    /\ procs = {1}
    /\ InitProcs

\* a call make_cubes(redo=...) that asks for a mask, with the default dodet
\* and bands
BeginFair(p) ==
    /\ Begin(p)
    /\ args'[p].get_mask
    /\ args'[p].dodet
    /\ args'[p].bands = Bands

StepFair(p) ==
    \/ BeginFair(p)
    \/ Return(p)
    \/ mc_stamps(p)
    \/ mc_redo(p)
    \/ mc_det(p)
    \/ mc_exists(p)
    \/ mc_headers(p)
    \/ mc_mask(p)
    \/ mc_prompt_y(p)
    \/ mc_prompt_r(p)
    \/ mc_prompt_empty(p)
    \/ mc_prompt_n(p)
    \/ mc_prompt_q(p)
    \/ mc_prompt_other(p)
    \/ mc_finalize(p)
    \/ mc_write(p)

NextFair == \E p \in ProcIds : StepFair(p)

SpecFair ==
    /\ InitFair
    /\ [][NextFair]_vars
    /\ \A p \in ProcIds : WF_vars(mc_finalize(p)) /\ WF_vars(mc_write(p))

(***************************************************************************)
(* Properties of make_cubes                                                *)
(***************************************************************************)
\* process p is in, or has ended, a call of make_cubes
InMakeCubes(p) ==
    /\ p \in procs
    /\ pc[p] # "idle"
    /\ outcome[p] \notin {"none", "calibrate_ok", "calibrate_raised", "mask_ok", "mask_raised"}

\* the call of process p has ended, by return or by an exception
Ended(p) == pc[p] \in {"done", "raised"}

CubePath(p) == <<"cube", Triple(p)>>

MaskPath(p) == <<"mask", Triple(p)>>

\* C1: when the cube of (object, tile, size) exists at the call and redo is
\* False, make_cubes writes no file and calls neither acquisition, nor the
\* detection-stamp build, nor calibration, nor mask building, nor the prompt.
C1_SkipOnExists ==
    \A p \in ProcIds :
        (InMakeCubes(p) /\ Ended(p) /\ pre[p].cube /\ ~args[p].redo)
            => (written[p] = {} /\ calls[p] = NoCalls)

\* C2: a run that found fewer than 24 stamps and whose acquisition did not
\* bring the count to 24 ends with an error; it writes no cube and starts
\* neither calibration nor mask building.  No run goes past the count with
\* fewer than 24 stamps.
C2_IncompleteStamps ==
    \A p \in ProcIds :
        InMakeCubes(p) =>
            /\ (loc[p].short /\ pc[p] # "stamps"
                    /\ CountStamps(fs.stamps, Triple(p)) < MinStamps)
                  => /\ pc[p] = "raised"
                     /\ outcome[p] \in {"IOError_stamps", "acquire_error"}
                     /\ CubePath(p) \notin written[p]
                     /\ fs.cube[Triple(p)].exists = pre[p].cube
                     /\ calls[p].calibrate = 0
                     /\ calls[p].calc_masks = 0
            /\ outcome[p] = "IOError_stamps"
                  => (loc[p].short /\ CountStamps(fs.stamps, Triple(p)) < MinStamps)

\* C2 happens: the acquisition ran without an error and left fewer than 24
\* stamps, and the run raised IOError
C2_Witness ==
    /\ outcome[1] = "IOError_stamps"
    /\ pre[1].nstamps = 20
    /\ calls[1].acquire = 1
    /\ CountStamps(fs.stamps, Triple(1)) < MinStamps

\* C3: the answer q at the prompt, after any earlier answers, makes
\* make_cubes return; the run writes neither the cube nor the mask file, so
\* each of them exists after the run only if it existed before it, unchanged.
C3_QuitWritesNothing ==
    \A p \in ProcIds :
        (InMakeCubes(p) /\ loc[p].q1 = "q")
            => /\ pc[p] = "done"
               /\ outcome[p] = "quit"
               /\ CubePath(p) \notin written[p]
               /\ MaskPath(p) \notin written[p]
               /\ fs.cube[Triple(p)].exists = pre[p].cube
               /\ fs.mask[Triple(p)].exists = pre[p].mask

\* C3 happens: q is answered after a y that put stars on the keep list, in a
\* rebuild over an existing cube
C3_Witness ==
    /\ loc[1].q1 = "q"
    /\ maskstars[1] # <<>>
    /\ calls[1].calc_masks = 2
    /\ pre[1].cube
    /\ fs.cube[Triple(1)].exists

\* C4: an answer other than y, r, n, q or the empty string raises IOError at
\* once: the run has ended, the prompt is not read again, and the run writes
\* neither the cube nor the mask file, whatever the keep list holds.
C4_InvalidAnswerFatal ==
    \A p \in ProcIds :
        (InMakeCubes(p) /\ loc[p].q1 = "x")
            => /\ pc[p] = "raised"
               /\ outcome[p] = "IOError_option"
               /\ CubePath(p) \notin written[p]
               /\ MaskPath(p) \notin written[p]
               /\ ~fs.mask[Triple(p)].exists

\* C4 happens: the unknown answer comes after a y that put stars on the keep
\* list
C4_Witness ==
    /\ loc[1].q1 = "x"
    /\ outcome[1] = "IOError_option"
    /\ maskstars[1] # <<>>
    /\ calls[1].input = 3

\* C5: a run that fails or is aborted (an exception, or q at the prompt) has
\* written nothing: every file is as it was before the run and no new file
\* exists.
C5_FailureAtomicity ==
    \A p \in ProcIds :
        (InMakeCubes(p) /\ (pc[p] = "raised" \/ outcome[p] = "quit"))
            => written[p] = {}

\* C6: a run for one (object, tile, size), interleaved in any way with a run
\* for another, produces what it produces alone: the zero points stored in
\* its stamps and used for its cube are those of its own tile's table.
C6_Independent ==
    \A p \in procs :
        outcome[p] = "written" =>
            LET t == Triple(p)
                c == fs.cube[t]
            IN  /\ \A b \in DOMAIN fs.stamps[t].magzp :
                      fs.stamps[t].magzp[b]
                          = StampZP(self[p].tile, NewHeader(t[1], t[2], "swp", b))
                /\ \A i \in 1..Len(c.DATA) :
                      c.DATA[i].m0
                          = StampZP(self[p].tile,
                                    NewHeader(t[1], t[2], "swp", c.METADATA[i].FILTER))

\* C7: the cube write is reached only when the exists-check found no cube
\* or redo is True; in a run with redo False a cube that exists at the check
\* is never written and stays as it is.
C7_OverwriteOnlyOnRedo ==
    \A p \in ProcIds :
        InMakeCubes(p) =>
            /\ CubePath(p) \in written[p] => (~loc[p].cube_exists \/ args[p].redo)
            /\ pc[p] \in {"headers", "mask", "prompt", "finalize", "write"}
                  => (~loc[p].cube_exists \/ args[p].redo)
            /\ (~args[p].redo /\ loc[p].cube_exists)
                  => /\ outcome[p] = "skipped"
                     /\ CubePath(p) \notin written[p]
                     /\ fs.cube[Triple(p)].exists

\* C7 happens: a run without redo found at the check the cube that an earlier
\* run had written, and stopped there
C7_Witness ==
    /\ outcome[1] = "skipped"
    /\ loc[1].cube_exists
    /\ ~args[1].redo
    /\ pre[1].cube

\* C8: a run acquires once for a shortfall of stamps and once more only for
\* redo; after the shortfall acquisition the run goes on or has failed.  An
\* acquisition or an extraction that raised ends the run: nothing is called
\* after it.
C8_OneRetry ==
    \A p \in ProcIds :
        InMakeCubes(p) =>
            LET short == IF loc[p].short THEN 1 ELSE 0
                redo  == IF args[p].redo THEN 1 ELSE 0
            IN  /\ pc[p] = "stamps" => calls[p].acquire = 0
                /\ pc[p] = "redo" => calls[p].acquire = short
                /\ pc[p] \notin {"stamps", "redo", "raised"}
                      => calls[p].acquire = short + redo
                /\ outcome[p] = "IOError_stamps" => calls[p].acquire = 1
                /\ outcome[p] = "acquire_error"
                      => /\ pc[p] = "raised"
                         /\ calls[p].acquire \in {1, short + redo}
                         /\ calls[p].det = 0 /\ calls[p].calibrate = 0
                         /\ calls[p].calc_masks = 0
                /\ (pre[p].nstamps < MinStamps /\ pc[p] # "stamps") => loc[p].short
                /\ ~env.sex
                      => /\ calls[p].run_sex <= 1
                         /\ calls[p].run_sex = 1
                               => (pc[p] = "raised" /\ outcome[p] = "mask_error"
                                     /\ calls[p].input = 0)

\* C8 happens: a run that found 20 stamps acquired once and went on, without
\* redo, to write its cube
C8_Witness ==
    /\ pre[1].nstamps = 20
    /\ ~args[1].redo
    /\ calls[1].acquire = 1
    /\ outcome[1] = "written"

\* C9: a call of calibrate_stamps that follows a call of calibrate_stamps,
\* with the table, the grids and the stamps' positions unchanged, leaves the
\* MAGZP of every data stamp as the first call left it; and every stored
\* MAGZP is the table value of the calibrating object's tile plus the
\* correction at the stamp's position, whatever was stored before.
C9_CalibrateIdempotent ==
    /\ [][\A p \in ProcIds :
            (Calibrate(p) /\ prev[p] \in {"calibrate_ok", "calibrate_raised"})
                => fs'.stamps = fs.stamps]_vars
    /\ [](\A t \in DOMAIN fs.stamps : \A b \in DOMAIN fs.stamps[t].magzp :
            \E p \in procs :
                fs.stamps[t].magzp[b]
                    = get_zps(self[p].tile, b) + get_zp_correction(b, X0(t[1]), Y0(t[1])))

\* C9 happens: two calls of calibrate_stamps in a row, both without an
\* error, with calibrated stamps in the directory
C9_Witness ==
    /\ outcome[1] = "calibrate_ok"
    /\ prev[1] = "calibrate_ok"
    /\ \E t \in DOMAIN fs.stamps : DOMAIN fs.stamps[t].magzp = BandSet

\* C10: in every cube written, row i of METADATA names the band whose stamp,
\* zero point, gain and effective wavelength made plane i of DATA (and of
\* ERRORS when present), and the other columns of row i come from that
\* band's header, for any bands argument.
C10_BandAlignment ==
    \A t \in DOMAIN fs.cube :
        fs.cube[t].exists =>
            LET c == fs.cube[t]
            IN  /\ Len(c.DATA) = Len(c.METADATA)
                /\ c.ERRORS # <<>> => Len(c.ERRORS) = Len(c.METADATA)
                /\ \A i \in 1..Len(c.METADATA) :
                     LET b == c.METADATA[i].FILTER
                         h == NewHeader(t[1], t[2], "swp", b)
                     IN  /\ c.DATA[i].data = GetData(t, "swp", b)
                         /\ c.DATA[i].wave = wave_eff(b)
                         /\ \E tile \in TileSet : c.DATA[i].m0 = StampZP(tile, h)
                         /\ c.METADATA[i].WAVE_EFF = wave_eff(b)
                         /\ c.METADATA[i].EXPTIME = h.EFFTIME
                         /\ c.METADATA[i].GAIN = h.GAIN
                         /\ c.METADATA[i].PSFFWHM = h.PSFFWHM
                         /\ c.ERRORS # <<>> =>
                              /\ c.ERRORS[i].weights = GetData(t, "swpweight", b)
                              /\ c.ERRORS[i].data = GetData(t, "swp", b)
                              /\ c.ERRORS[i].gain = h.GAIN
                              /\ c.ERRORS[i].m0 = c.DATA[i].m0
                              /\ c.ERRORS[i].wave = wave_eff(b)

\* C10 happens: a cube with error planes written for a bands argument that is
\* a reordered subset of the twelve bands
C10_Witness ==
    /\ outcome[1] = "written"
    /\ args[1].bands = <<"Z", "G", "U">>
    /\ fs.cube[Triple(1)].exists
    /\ Len(fs.cube[Triple(1)].METADATA) = 3
    /\ fs.cube[Triple(1)].METADATA[1].FILTER = "Z"
    /\ fs.cube[Triple(1)].ERRORS # <<>>

\* the counts of the data stamp of band b of (tile, size) t are all 1
AllOnes(t, b) == \A xy \in Pixels(t[2]) : GetPixels(t, "swp", b)[xy] = 1

C14_CubeLayout ==
    \A p \in procs :
        outcome[p] = "written" =>
            LET c  == fs.cube[Triple(p)]
                he == HasErrs(fs.stamps, Triple(p), args[p].bands)
                gm == args[p].get_mask
                n  == Len(c.layers)
            IN  /\ n = 3 + (IF he THEN 1 ELSE 0) + (IF gm THEN 1 ELSE 0)
                /\ c.layers[1] = "PRIMARY"
                /\ c.layers[2] = "DATA"
                /\ c.layers[n] = "METADATA"
                /\ he <=> (c.layers[3] = "ERRORS")
                /\ gm <=> (c.layers[n - 1] = "MASK")
                /\ he <=> (c.ERRORS # <<>>)
                /\ gm <=> c.MASK.exists
                /\ Len(c.DATA) = Len(args[p].bands)
                /\ Len(c.METADATA) = Len(args[p].bands)

\* C14 witness: a cube of five layers written after one of four layers (no
\* mask) was written for the same object.
C14_Witness ==
    /\ outcome[1] = "written"
    /\ prev[1] = "written"
    /\ pre[1].cube
    /\ ~pre[1].mask
    /\ fs.cube[Triple(1)].layers = <<"PRIMARY", "DATA", "ERRORS", "MASK", "METADATA">>

\* C15: a call of calibrate_stamps that finds no data stamp in the object's
\* directory ends with an error.
C15_CalibrateNeedsStamps ==
    \A p \in procs :
        (outcome[p] \in {"calibrate_ok", "calibrate_raised"} /\ ListedStamps(fs.stamps) = {})
            => outcome[p] = "calibrate_raised"

\* C16: in the cube a run has written with error planes, each ERRORS pixel is
\* the square root of 1/weight + max(counts, 0)/gain, times the conversion
\* factor of the band's DATA plane: its square is that sum, and negative
\* counts add nothing to it.
C16_ErrorsAreSqrt ==
    \A p \in procs :
        (outcome[p] = "written" /\ fs.cube[Triple(p)].ERRORS # <<>>) =>
            \A i \in 1..Len(fs.cube[Triple(p)].ERRORS) :
                LET t == Triple(p)
                    c == fs.cube[t]
                    b == c.METADATA[i].FILTER
                    G == GetHeader(fs.stamps, t, "swp", b).GAIN
                IN  /\ c.ERRORS[i].m0 = c.DATA[i].m0
                    /\ c.ERRORS[i].wave = c.DATA[i].wave
                    /\ \A xy \in Pixels(t[2]) :
                          LET W == GetPixels(t, "swpweight", b)[xy]
                              n == GetPixels(t, "swp", b)[xy]
                              e == c.ERRORS[i].pix[xy]
                          IN  e[1] * e[1] * (W * G)
                                  = (G + (IF n > 0 THEN n ELSE 0) * W) * e[2] * e[2]

\* C18: when the REFINE loop of a run ended with n, the mask file and the
\* MASK layer of the cube written hold the mask computed with the keep list
\* made of the indices typed after y since the last r (none: every proposed
\* star is masked); an empty answer changes neither the keep list nor the
\* directory, and r does not change the directory.
C18_KeepListSemantics ==
    /\ [](\A p \in procs :
            (outcome[p] = "written" /\ loc[p].q1 = "n") =>
                LET t == Triple(p)
                    stars == SelectStars(SexCatalog(t[1], t[2]), class_star)
                IN  /\ fs.mask[t].exists
                    /\ fs.mask[t].data = MaskRaster(DetData(t[1], t[2]), stars, t[2],
                                                    self[p].angsize, loc[p].kept)
                    /\ fs.cube[t].MASK = fs.mask[t])
    /\ [][\A p \in procs :
            /\ mc_prompt_empty(p) => (maskstars'[p] = maskstars[p] /\ fs' = fs)
            /\ mc_prompt_r(p) => fs' = fs]_vars

\* C18 witness: a cube written after the answers y (indices typed), r, n: the
\* mask was computed three times and the keep list at the end is empty.
C18_Witness ==
    /\ outcome[1] = "written"
    /\ loc[1].q1 = "n"
    /\ nprompt[1] = 2
    /\ calls[1].calc_masks = 3
    /\ loc[1].kept = {}
    /\ fs.cube[Triple(1)].MASK.exists

\* C19: in every mask build of a run the detection stamp is there when the
\* extraction tool is called, the tool is called once, before the first
\* prompt, and not again during REFINE or FINALIZE, and the mask file is
\* written only after the REFINE loop ended with n.
C19_StageOrder ==
    \A p \in procs :
        InMakeCubes(p) =>
            /\ calls[p].run_sex > 0 => fs.det[Triple(p)]
            /\ calls[p].input > 0 => calls[p].run_sex > 0
            /\ calls[p].run_sex <= 1
            /\ MaskPath(p) \in written[p] => loc[p].q1 = "n"

\* C20: at the header step of make_cubes, calibrate_stamps is called exactly
\* when the header of some band of the call has no MAGZP; the zero points of
\* the flux planes are those stored in the stamps after that step; and a run
\* that found MAGZP in every header has modified no stamp file.
C20_CalibrationTrigger ==
    /\ [][\A p \in procs :
            mc_headers(p) =>
                LET t     == Triple(p)
                    bands == args[p].bands
                    lacks == \E i \in 1..Len(bands) :
                                ~HasKey(Headers(fs.stamps, t, bands)[i], "MAGZP")
                IN  (\A i \in 1..Len(bands) : StampExists(fs.stamps, t, "swp", bands[i])) =>
                        /\ lacks <=> (calls'[p].calibrate = calls[p].calibrate + 1)
                        /\ ~lacks => (calls'[p] = calls[p] /\ fs' = fs)
                        /\ pc'[p] = "mask" =>
                              \A i \in 1..Len(bands) :
                                  /\ HasKey(Headers(fs'.stamps, t, bands)[i], "MAGZP")
                                  /\ loc'[p].DATA[i].m0 = Headers(fs'.stamps, t, bands)[i].MAGZP]_vars
    /\ [](\A p \in procs :
            (InMakeCubes(p) /\ loc[p].tab # <<>> /\ calls[p].calibrate = 0) =>
                \A t \in DOMAIN fs.stamps :
                    /\ <<"stamp", t>> \notin written[p]
                    /\ <<"stamp_header", t>> \notin written[p])

\* C20 witness: a cube written by a run that found MAGZP in every header, did
\* not calibrate and touched no stamp.
C20_Witness ==
    /\ outcome[1] = "written"
    /\ calls[1].calibrate = 0
    /\ \A b \in BandSet : HasKey(GetHeader(fs.stamps, Triple(1), "swp", b), "MAGZP")
    /\ \A t \in DOMAIN fs.stamps :
          <<"stamp", t>> \notin written[1] /\ <<"stamp_header", t>> \notin written[1]

\* C21: a call of calibrate_stamps that fails for a missing table, a missing
\* column or a missing grid, made directly or by make_cubes, has written the
\* zero point of no stamp, and the make_cubes run that made it writes no cube.
C21_CalibrationAllOrNothing ==
    \A p \in procs :
        outcome[p] \in {"calibrate_raised", "calibrate_error"} =>
            /\ \A t \in DOMAIN fs.stamps : <<"stamp_header", t>> \notin written[p]
            /\ CubePath(p) \notin written[p]

\* C22: a run that asks for a mask and finds the mask file of its (tile, size)
\* calls neither calc_masks nor the extraction tool, prompts nobody, leaves
\* the mask file as it is, and puts the file's content in the MASK layer of
\* the cube it writes.
C22_MaskReuse ==
    /\ [](\A p \in procs :
            (InMakeCubes(p) /\ args[p].get_mask /\ pre[p].mask) =>
                /\ calls[p].calc_masks = 0
                /\ calls[p].run_sex = 0
                /\ calls[p].input = 0
                /\ MaskPath(p) \notin written[p]
                /\ outcome[p] = "written" => fs.cube[Triple(p)].MASK = fs.mask[Triple(p)])
    /\ [][\A p \in procs :
            (pre[p].mask /\ InMakeCubes(p)) => fs'.mask[Triple(p)] = fs.mask[Triple(p)]]_vars

\* C22 witness: a cube written by a rebuild that found a mask file made with
\* a non-empty keep list; the MASK layer is that file, which is not the mask
\* of the empty keep list.
C22_Witness ==
    /\ outcome[1] = "written"
    /\ args[1].get_mask
    /\ pre[1].mask
    /\ calls[1].calc_masks = 0
    /\ fs.cube[Triple(1)].MASK = fs.mask[Triple(1)]
    /\ fs.mask[Triple(1)].data
          # MaskRaster(DetData("T1", 5), SelectStars(SexCatalog("T1", 5), class_star), 5,
                       self[1].angsize, {})

\* C23: the files counted for a (tile, size) are at most 24; a run that is
\* past the stamp count has a data and a weight stamp for each of the twelve
\* bands, its has_errs is true, and the cube it writes has an ERRORS layer.
C23_ErrorsAlwaysPresent ==
    \A p \in procs :
        /\ CountStamps(fs.stamps, Triple(p)) <= 2 * Len(Bands)
        /\ (InMakeCubes(p) /\ pc[p] \notin {"stamps", "raised"}) =>
              /\ \A b \in BandSet, k \in KindSet : StampExists(fs.stamps, Triple(p), k, b)
              /\ loc[p].tab # <<>> => loc[p].has_errs
              /\ outcome[p] = "written" =>
                    /\ fs.cube[Triple(p)].ERRORS # <<>>
                    /\ \E i \in 1..Len(fs.cube[Triple(p)].layers) :
                          fs.cube[Triple(p)].layers[i] = "ERRORS"

\* C23 witness: a cube with ERRORS written by a run that found 20 of the 24
\* stamps, the weight stamps of four bands missing, and acquired them.
C23_Witness ==
    /\ outcome[1] = "written"
    /\ loc[1].short
    /\ pre[1].nstamps = 20
    /\ loc[1].has_errs
    /\ Len(fs.cube[Triple(1)].ERRORS) = Len(args[1].bands)

\* C24: a call of calibrate_stamps, direct or from make_cubes, changes nothing
\* in the directory but the stored zero points of data stamps: no stamp
\* appears or disappears and detection stamp, mask, cube and every other file
\* stay as they are; a call that completes leaves in every data stamp of the
\* directory, whatever its tile and size, the zero point of the configured
\* tile's table plus the correction at the stamp's own position.
C24_CalibrateFrame ==
    [][\A p \in procs :
          calls'[p].calibrate = calls[p].calibrate + 1 =>
              /\ [fs' EXCEPT !.stamps = fs.stamps] = fs
              /\ \A t \in DOMAIN fs.stamps :
                    /\ fs'.stamps[t].have = fs.stamps[t].have
                    /\ \A b \in DOMAIN fs'.stamps[t].magzp :
                          StampExists(fs.stamps, t, "swp", b)
              /\ outcome'[p] \notin {"calibrate_raised", "calibrate_error"} =>
                    \A t \in DOMAIN fs.stamps, b \in BandSet :
                        StampExists(fs.stamps, t, "swp", b) =>
                            /\ b \in DOMAIN fs'.stamps[t].magzp
                            /\ fs'.stamps[t].magzp[b] =
                                  get_zps(self[p].tile, b)
                                      + get_zp_correction(b, X0(t[1]), Y0(t[1]))]_vars

\* C24 witness: after a completed call by the object of tile T1 the data
\* stamps of tile T2 in the same directory hold zero points of T1's table,
\* which are not those of T2's.
C24_Witness ==
    /\ outcome[1] = "calibrate_ok"
    /\ self[1].tile = "T1"
    /\ DOMAIN fs.stamps[<<"T2", 5>>].magzp = BandSet
    /\ \A b \in BandSet :
          /\ fs.stamps[<<"T2", 5>>].magzp[b]
                = get_zps("T1", b) + get_zp_correction(b, X0("T2"), Y0("T2"))
          /\ fs.stamps[<<"T2", 5>>].magzp[b]
                # get_zps("T2", b) + get_zp_correction(b, X0("T2"), Y0("T2"))

\* C25: with no angular radius configured, a run that asks for a mask and
\* found no mask file never calls the extraction tool, never prompts, and
\* writes neither catalogue, mask nor cube; once it has called calc_masks it
\* has ended with that call's error.
C25_NoRadiusFails ==
    \A p \in procs :
        (InMakeCubes(p) /\ self[p].angsize = NoAngsize /\ args[p].get_mask /\ ~pre[p].mask) =>
            /\ calls[p].run_sex = 0
            /\ calls[p].input = 0
            /\ pc[p] \notin {"prompt", "finalize", "write"}
            /\ outcome[p] # "written"
            /\ written[p] \cap {MaskPath(p), CubePath(p), <<"sexcat", Triple(p)>>,
                                <<"segmentation", Triple(p)>>} = {}
            /\ calls[p].calc_masks > 0 => (pc[p] = "raised" /\ outcome[p] = "mask_error")

\* C25 witness: such a run has called calc_masks once and ended with its error.
C25_Witness ==
    /\ self[1].angsize = NoAngsize
    /\ args[1].get_mask
    /\ ~pre[1].mask
    /\ calls[1].calc_masks = 1
    /\ outcome[1] = "mask_error"
    /\ fs.det[Triple(1)]

\* C26 as stated: after an answer y, r or empty the prompt always comes back.
C26_PromptAlwaysBack ==
    [][\A p \in procs :
          (mc_prompt_y(p) \/ mc_prompt_r(p) \/ mc_prompt_empty(p)) => pc'[p] = "prompt"]_vars

\* C26, amended: after r or empty the prompt comes back; after y it comes
\* back unless the index line holds a token that is no integer (ValueError)
\* or the recomputation fails; the loop is left only by n, q, an unknown
\* answer or such a failing y.  After the answer n the mask file is written
\* and then the cube: the run goes on to end with the cube written, and when
\* the cube is about to be written the mask already is.
C26_RefineLoop ==
    /\ [][\A p \in procs :
            /\ (mc_prompt_r(p) \/ mc_prompt_empty(p)) => pc'[p] = "prompt"
            /\ mc_prompt_y(p) =>
                  \/ pc'[p] = "prompt"
                  \/ pc'[p] = "raised" /\ outcome'[p] \in {"ValueError", "mask_error"}
            /\ (pc[p] = "prompt" /\ pc'[p] # "prompt") =>
                  \/ mc_prompt_n(p)
                  \/ mc_prompt_q(p)
                  \/ mc_prompt_other(p)
                  \/ mc_prompt_y(p) /\ pc'[p] = "raised"]_vars
    /\ [](\A p \in procs :
            (pc[p] = "write" /\ loc[p].q1 = "n") =>
                (MaskPath(p) \in written[p] /\ CubePath(p) \notin written[p]))
    /\ \A p \in ProcIds :
          (p \in procs /\ pc[p] = "finalize")
              ~> (outcome[p] = "written" /\ {MaskPath(p), CubePath(p)} \subseteq written[p])

\* C26 witness: a cube written after MaxPrompts answers that brought the
\* prompt back and the answer n; mask and cube were written by the run.
C26_Witness ==
    /\ outcome[1] = "written"
    /\ loc[1].q1 = "n"
    /\ nprompt[1] = MaxPrompts
    /\ {MaskPath(1), CubePath(1)} \subseteq written[1]

\* C27: an acquisition step of make_cubes stores no zero point, and when it
\* completes, every data stamp of the run's (tile, size) that it has cut from
\* a tile image holds none; a run that has acquired and has converted to flux
\* has calibrated in between, and the zero points of its planes are those of
\* the configured tile's table at the stamps' position.
C27_ReacquireRecalibrates ==
    /\ [][\A p \in procs :
            calls'[p].acquire = calls[p].acquire + 1 =>
                LET t == Triple(p)
                IN  /\ \A b \in DOMAIN fs'.stamps[t].magzp :
                          /\ b \in DOMAIN fs.stamps[t].magzp
                          /\ fs'.stamps[t].magzp[b] = fs.stamps[t].magzp[b]
                    /\ pc'[p] # "raised" =>
                          \A b \in BandSet :
                              env.tileimg[t[1]]["swp"][b] = "ok"
                                  => b \notin DOMAIN fs'.stamps[t].magzp]_vars
    /\ [](\A p \in procs :
            (InMakeCubes(p) /\ calls[p].acquire > 0 /\ loc[p].tab # <<>>) =>
                /\ calls[p].calibrate = 1
                /\ \A i \in 1..Len(loc[p].DATA) :
                      loc[p].DATA[i].m0
                          = StampZP(self[p].tile,
                                    NewHeader(self[p].tile, self[p].size, "swp", args[p].bands[i])))

\* C27 witness: a rebuild over a cube of an earlier run, whose stamps held the
\* zero points that run stored: it acquired, calibrated and wrote the cube.
C27_Witness ==
    /\ outcome[1] = "written"
    /\ prev[1] = "written"
    /\ args[1].redo
    /\ pre[1].cube
    /\ pre[1].nstamps = 2 * Len(Bands)
    /\ calls[1].acquire = 1
    /\ calls[1].calibrate = 1

(***************************************************************************)
(* Properties of calc_masks                                                *)
(***************************************************************************)
\* the mask raster calc_masks returns for the keep list ms in the present
\* directory and environment, as the set of the pixels that are 1
MaskWith(p, ms) ==
    calc_masks(fs, self[p].angsize, self[p].tile, self[p].size, FALSE, FALSE, ms).mask.data

\* the number of masked (0) pixels of a raster
NMasked(p, m) == Cardinality(Pixels(self[p].size) \ m)

\* C11: for the mask calc_masks returned for a keep list K and every index i
\* (of a proposed star or not), the mask for K plus i has every pixel 1 that
\* was 1 for K, and at most as many masked (0) pixels.
C11_MaskMonotone ==
    \A p \in procs :
        outcome[p] = "mask_ok" =>
            \A i \in 0..(NStars + 2) :
                /\ loc[p].imagemask.data \subseteq MaskWith(p, maskstars[p] \o <<i>>)
                /\ NMasked(p, MaskWith(p, maskstars[p] \o <<i>>))
                       <= NMasked(p, loc[p].imagemask.data)

\* C11 witness: a mask returned for a non-empty keep list, and an index whose
\* addition turns masked pixels into 1.
C11_Witness ==
    \E p \in procs :
        /\ outcome[p] = "mask_ok"
        /\ maskstars[p] # <<>>
        /\ \E i \in 1..NStars :
              NMasked(p, MaskWith(p, maskstars[p] \o <<i>>)) < NMasked(p, loc[p].imagemask.data)

\* four times the squared pixel distance of pixel q from the projected centre
\* of the object, the centre of the stamp
Dist2x4(p, q) ==
    (2 * q[1] - (self[p].size - 1)) * (2 * q[1] - (self[p].size - 1))
        + (2 * q[2] - (self[p].size - 1)) * (2 * q[2] - (self[p].size - 1))

\* C12: in every mask calc_masks returns for an object of angular radius R,
\* each pixel farther than 1.1 * R from the object's centre is 0, whatever
\* the catalogue, the keep list and the detection image.
C12_RadiusClipping ==
    \A p \in procs :
        outcome[p] = "mask_ok" =>
            \A q \in Pixels(self[p].size) :
                100 * Dist2x4(p, q) > 4 * 121 * self[p].angsize * self[p].angsize
                    => q \notin loc[p].imagemask.data

\* C12 witness: a returned mask with a pixel beyond 1.1 * R that the detection
\* image shows above the threshold and that no proposed star covers; the
\* pixel is 0 in the mask.
C12_Witness ==
    \E p \in procs :
        /\ outcome[p] = "mask_ok"
        /\ \E q \in Pixels(self[p].size) :
              /\ 100 * Dist2x4(p, q) > 4 * 121 * self[p].angsize * self[p].angsize
              /\ FData(DetData(self[p].tile, self[p].size))[q] > 0
              /\ \A j \in 1..(NStars + 1) :
                    ~InsideCircle(q, SexCatalog(self[p].tile, self[p].size)[j])
              /\ q \notin loc[p].imagemask.data

\* C17: in the mask calc_masks returns, a pixel is 1 exactly when it is within
\* 1.1 * R of the object's centre and inside the circle of no proposed star
\* whose index is missing from the keep list, whatever the detection image
\* shows at the pixel.
C17_FinalizeRaster ==
    \A p \in procs :
        outcome[p] = "mask_ok" =>
            LET stars == SelectStars(SexCatalog(self[p].tile, self[p].size), class_star)
            IN  \A q \in Pixels(self[p].size) :
                    q \in loc[p].imagemask.data <=>
                        /\ 100 * Dist2x4(p, q) <= 4 * 121 * self[p].angsize * self[p].angsize
                        /\ \A n \in 1..Len(stars) :
                              InsideCircle(q, stars[n]) => n \in SeqToSet(maskstars[p])

====
